---- MODULE Spec2Model ----
(***************************************************************************)
(* Permission evaluation and route guard of the barbershop front-end:      *)
(* the JWT helpers (lib/utils/jwt.utils), the permission hook              *)
(* (lib/hooks/use-permissions.ts), the auth context (lib/context/auth) and *)
(* the edge middleware (middleware.ts).                                    *)
(*                                                                         *)
(* Strings on which the code computes prefixes, substrings or case         *)
(* conversions (path names, role names) are sequences of characters, a     *)
(* character being a one-character string or, outside Latin-1, its code    *)
(* point ("U+0131").  Permission names are plain strings; where the code   *)
(* looks inside one, Chars gives its characters.                           *)
(***************************************************************************)
EXTENDS Integers, Sequences, FiniteSets, TLC

----------------------------------------------------------------------------
\* Bounds of the explored inputs.

\* longest permission list carried by a token payload
MaxPerms == 2
\* longest role list carried by a token payload
MaxRoles == 1
\* longest permission list passed to hasAnyPermission / hasAllPermissions
MaxReq == 2
\* longest chain of redirects the browser is followed through
MaxRedirects == 3
\* most path segments of a path whose permissions are looked up
MaxSegments == 3
\* backend calls one mounted list hook issues
MaxCalls == 3

----------------------------------------------------------------------------
\* String literals of the source, as character sequences.

\* "/"
P_root == <<"/">>
\* "/login"
P_login == <<"/", "l", "o", "g", "i", "n">>
\* "/register"
P_register == <<"/", "r", "e", "g", "i", "s", "t", "e", "r">>
\* "/reservar"
P_reservar == <<"/", "r", "e", "s", "e", "r", "v", "a", "r">>
\* "/nosotros"
P_nosotros == <<"/", "n", "o", "s", "o", "t", "r", "o", "s">>
\* "/servicios"
P_servicios == <<"/", "s", "e", "r", "v", "i", "c", "i", "o", "s">>
\* "/api/public"
P_api_public == <<"/", "a", "p", "i", "/", "p", "u", "b", "l", "i", "c">>
\* "/_next"
P_next == <<"/", "_", "n", "e", "x", "t">>
\* "/favicon"
P_favicon == <<"/", "f", "a", "v", "i", "c", "o", "n">>
\* "/dashboard"
P_dashboard == <<"/", "d", "a", "s", "h", "b", "o", "a", "r", "d">>
\* "/dashboard/clientes"
P_dashboard_clientes == <<"/", "d", "a", "s", "h", "b", "o", "a", "r", "d", "/", "c", "l", "i", "e", "n", "t", "e", "s">>
\* "/dashboard/profesionales"
P_dashboard_profesionales == <<"/", "d", "a", "s", "h", "b", "o", "a", "r", "d", "/", "p", "r", "o", "f", "e", "s", "i", "o", "n", "a", "l", "e", "s">>
\* "/dashboard/categorias"
P_dashboard_categorias == <<"/", "d", "a", "s", "h", "b", "o", "a", "r", "d", "/", "c", "a", "t", "e", "g", "o", "r", "i", "a", "s">>
\* "/dashboard/servicios"
P_dashboard_servicios == <<"/", "d", "a", "s", "h", "b", "o", "a", "r", "d", "/", "s", "e", "r", "v", "i", "c", "i", "o", "s">>
\* "/dashboard/reservas"
P_dashboard_reservas == <<"/", "d", "a", "s", "h", "b", "o", "a", "r", "d", "/", "r", "e", "s", "e", "r", "v", "a", "s">>
\* "/dashboard/configuracion"
P_dashboard_configuracion == <<"/", "d", "a", "s", "h", "b", "o", "a", "r", "d", "/", "c", "o", "n", "f", "i", "g", "u", "r", "a", "c", "i", "o", "n">>
\* "/dashboard/clientes/nuevo"
P_dashboard_clientes_nuevo == <<"/", "d", "a", "s", "h", "b", "o", "a", "r", "d", "/", "c", "l", "i", "e", "n", "t", "e", "s", "/", "n", "u", "e", "v", "o">>
\* "/perfil"
P_perfil == <<"/", "p", "e", "r", "f", "i", "l">>
\* "/_next/static"
P_dashboard_clientes_foto_png == P_dashboard_clientes \o <<"/", "f", "o", "t", "o", ".", "p", "n", "g">>

\* "ADMIN"
S_ADMIN == <<"A", "D", "M", "I", "N">>
\* "GERENTE_ADMIN"
R_GERENTE_ADMIN == <<"G", "E", "R", "E", "N", "T", "E", "_", "A", "D", "M", "I", "N">>
\* "admin"
R_admin == <<"a", "d", "m", "i", "n">>
\* "adm\u0131n", with the dotless i
R_admin_dotless == <<"a", "d", "m", "U+0131", "n">>
\* "BARBERO"
R_BARBERO == <<"B", "A", "R", "B", "E", "R", "O">>
LowerCase == <<"a", "b", "c", "d", "e", "f", "g", "h", "i", "j", "k", "l", "m", "n", "o", "p", "q", "r", "s", "t", "u", "v", "w", "x", "y", "z">>
UpperCase == <<"A", "B", "C", "D", "E", "F", "G", "H", "I", "J", "K", "L", "M", "N", "O", "P", "Q", "R", "S", "T", "U", "V", "W", "X", "Y", "Z">>

----------------------------------------------------------------------------
\* JavaScript built-ins used by the code.

\* String.prototype.startsWith
StartsWith(s, prefix) ==
    /\ Len(prefix) <= Len(s)
    /\ SubSeq(s, 1, Len(prefix)) = prefix

\* the end of a regular expression's `suffix$`
EndsWith(s, suffix) ==
    /\ Len(suffix) <= Len(s)
    /\ SubSeq(s, Len(s) - Len(suffix) + 1, Len(s)) = suffix

\* String.prototype.includes
StrIncludes(s, sub) ==
    \E i \in 0..(Len(s) - Len(sub)) : SubSeq(s, i + 1, i + Len(sub)) = sub

\* String.prototype.split on a one-character separator
RECURSIVE Split(_, _)
Split(s, sep) ==
    IF \A i \in 1..Len(s) : s[i] # sep THEN <<s>>
    ELSE LET i == CHOOSE k \in 1..Len(s) : s[k] = sep /\ \A j \in 1..(k - 1) : s[j] # sep
         IN  <<SubSeq(s, 1, i - 1)>> \o Split(SubSeq(s, i + 1, Len(s)), sep)

\* the characters String.prototype.trim strips: WhiteSpace (tab, vertical
\* tab, form feed, the blank, no-break space, the byte order mark and the
\* space separators) and LineTerminator (line feed, carriage return, line
\* and paragraph separator)
WhiteSpace ==
    {"\t", "U+000B", "\f", " ", "U+00A0", "U+FEFF",
     "U+1680", "U+2000", "U+2001", "U+2002", "U+2003", "U+2004", "U+2005",
     "U+2006", "U+2007", "U+2008", "U+2009", "U+200A", "U+202F", "U+205F",
     "U+3000",
     "\n", "\r", "U+2028", "U+2029"}

\* String.prototype.trim
RECURSIVE Trim(_)
Trim(s) ==
    IF Len(s) > 0 /\ s[1] \in WhiteSpace THEN Trim(SubSeq(s, 2, Len(s)))
    ELSE IF Len(s) > 0 /\ s[Len(s)] \in WhiteSpace THEN Trim(SubSeq(s, 1, Len(s) - 1))
    ELSE s

\* Array.prototype.includes
Includes(arr, x) == \E i \in 1..Len(arr) : arr[i] = x

\* the characters of a permission name
Chars(name) ==
    CASE name = "READ_CLIENTS" -> <<"R", "E", "A", "D", "_", "C", "L", "I", "E", "N", "T", "S">>
      [] name = "read_clients" -> <<"r", "e", "a", "d", "_", "c", "l", "i", "e", "n", "t", "s">>
      [] name = "FULL_ACCESS" -> <<"F", "U", "L", "L", "_", "A", "C", "C", "E", "S", "S">>
      [] name = "READ_PROFESSIONALS" -> <<"R", "E", "A", "D", "_", "P", "R", "O", "F", "E", "S", "S", "I", "O", "N", "A", "L", "S">>
      [] name = "READ_CATEGORIES" -> <<"R", "E", "A", "D", "_", "C", "A", "T", "E", "G", "O", "R", "I", "E", "S">>
      [] name = "READ_SERVICES" -> <<"R", "E", "A", "D", "_", "S", "E", "R", "V", "I", "C", "E", "S">>
      [] name = "READ_BOOKING" -> <<"R", "E", "A", "D", "_", "B", "O", "O", "K", "I", "N", "G">>
      [] name = "MANAGE_SETTINGS" -> <<"M", "A", "N", "A", "G", "E", "_", "S", "E", "T", "T", "I", "N", "G", "S">>
      [] name = "CREATE_CLIENTS" -> <<"C", "R", "E", "A", "T", "E", "_", "C", "L", "I", "E", "N", "T", "S">>
      [] name = "READ_DASHBOARD" -> <<"R", "E", "A", "D", "_", "D", "A", "S", "H", "B", "O", "A", "R", "D">>
      [] name = "READ" -> <<"R", "E", "A", "D">>
      [] name = "MY_FULL_ACCESS_X" -> <<"M", "Y", "_", "F", "U", "L", "L", "_", "A", "C", "C", "E", "S", "S", "_", "X">>
      [] name = "" -> <<>>

\* the payload's permissions field holds a string, kept as the only element
\* of payload.permissions
IsText(payload) ==
    "permissionsShape" \in DOMAIN payload /\ payload.permissionsShape = "string"

\* `permissions.includes(x)`, permissions being the payload's field or the
\* empty list put in its place: Array.prototype.includes on a list,
\* String.prototype.includes (a substring test) on a string
permissionsIncludes(payload, permissions, x) ==
    IF IsText(payload) /\ permissions # <<>>
    THEN StrIncludes(Chars(permissions[1]), Chars(x))
    ELSE Includes(permissions, x)

\* `payload.permissions.length`
permissionsLength(payload) ==
    IF IsText(payload) THEN Len(Chars(payload.permissions[1]))
    ELSE Len(payload.permissions)

\* The uppercase mappings of the characters outside ASCII (Unicode 17,
\* UnicodeData and the unconditional rules of SpecialCasing): a character
\* and the characters it becomes.  A character of Latin-1 is written as
\* itself, any other by its code point, "U+0131" being the dotless i.
UnicodeUpper ==
    {
      <<"µ", <<"U+039C">>>>, <<"ß", <<"S", "S">>>>, <<"à", <<"À">>>>, <<"á", <<"Á">>>>,
      <<"â", <<"Â">>>>, <<"ã", <<"Ã">>>>, <<"ä", <<"Ä">>>>, <<"å", <<"Å">>>>,
      <<"æ", <<"Æ">>>>, <<"ç", <<"Ç">>>>, <<"è", <<"È">>>>, <<"é", <<"É">>>>,
      <<"ê", <<"Ê">>>>, <<"ë", <<"Ë">>>>, <<"ì", <<"Ì">>>>, <<"í", <<"Í">>>>,
      <<"î", <<"Î">>>>, <<"ï", <<"Ï">>>>, <<"ð", <<"Ð">>>>, <<"ñ", <<"Ñ">>>>,
      <<"ò", <<"Ò">>>>, <<"ó", <<"Ó">>>>, <<"ô", <<"Ô">>>>, <<"õ", <<"Õ">>>>,
      <<"ö", <<"Ö">>>>, <<"ø", <<"Ø">>>>, <<"ù", <<"Ù">>>>, <<"ú", <<"Ú">>>>,
      <<"û", <<"Û">>>>, <<"ü", <<"Ü">>>>, <<"ý", <<"Ý">>>>, <<"þ", <<"Þ">>>>,
      <<"ÿ", <<"U+0178">>>>, <<"U+0101", <<"U+0100">>>>, <<"U+0103", <<"U+0102">>>>,
      <<"U+0105", <<"U+0104">>>>, <<"U+0107", <<"U+0106">>>>, <<"U+0109", <<"U+0108">>>>,
      <<"U+010B", <<"U+010A">>>>, <<"U+010D", <<"U+010C">>>>, <<"U+010F", <<"U+010E">>>>,
      <<"U+0111", <<"U+0110">>>>, <<"U+0113", <<"U+0112">>>>, <<"U+0115", <<"U+0114">>>>,
      <<"U+0117", <<"U+0116">>>>, <<"U+0119", <<"U+0118">>>>, <<"U+011B", <<"U+011A">>>>,
      <<"U+011D", <<"U+011C">>>>, <<"U+011F", <<"U+011E">>>>, <<"U+0121", <<"U+0120">>>>,
      <<"U+0123", <<"U+0122">>>>, <<"U+0125", <<"U+0124">>>>, <<"U+0127", <<"U+0126">>>>,
      <<"U+0129", <<"U+0128">>>>, <<"U+012B", <<"U+012A">>>>, <<"U+012D", <<"U+012C">>>>,
      <<"U+012F", <<"U+012E">>>>, <<"U+0131", <<"I">>>>, <<"U+0133", <<"U+0132">>>>,
      <<"U+0135", <<"U+0134">>>>, <<"U+0137", <<"U+0136">>>>, <<"U+013A", <<"U+0139">>>>,
      <<"U+013C", <<"U+013B">>>>, <<"U+013E", <<"U+013D">>>>, <<"U+0140", <<"U+013F">>>>,
      <<"U+0142", <<"U+0141">>>>, <<"U+0144", <<"U+0143">>>>, <<"U+0146", <<"U+0145">>>>,
      <<"U+0148", <<"U+0147">>>>, <<"U+0149", <<"U+02BC", "N">>>>, <<"U+014B", <<"U+014A">>>>,
      <<"U+014D", <<"U+014C">>>>, <<"U+014F", <<"U+014E">>>>, <<"U+0151", <<"U+0150">>>>,
      <<"U+0153", <<"U+0152">>>>, <<"U+0155", <<"U+0154">>>>, <<"U+0157", <<"U+0156">>>>,
      <<"U+0159", <<"U+0158">>>>, <<"U+015B", <<"U+015A">>>>, <<"U+015D", <<"U+015C">>>>,
      <<"U+015F", <<"U+015E">>>>, <<"U+0161", <<"U+0160">>>>, <<"U+0163", <<"U+0162">>>>,
      <<"U+0165", <<"U+0164">>>>, <<"U+0167", <<"U+0166">>>>, <<"U+0169", <<"U+0168">>>>,
      <<"U+016B", <<"U+016A">>>>, <<"U+016D", <<"U+016C">>>>, <<"U+016F", <<"U+016E">>>>,
      <<"U+0171", <<"U+0170">>>>, <<"U+0173", <<"U+0172">>>>, <<"U+0175", <<"U+0174">>>>,
      <<"U+0177", <<"U+0176">>>>, <<"U+017A", <<"U+0179">>>>, <<"U+017C", <<"U+017B">>>>,
      <<"U+017E", <<"U+017D">>>>, <<"U+017F", <<"S">>>>, <<"U+0180", <<"U+0243">>>>,
      <<"U+0183", <<"U+0182">>>>, <<"U+0185", <<"U+0184">>>>, <<"U+0188", <<"U+0187">>>>,
      <<"U+018C", <<"U+018B">>>>, <<"U+0192", <<"U+0191">>>>, <<"U+0195", <<"U+01F6">>>>,
      <<"U+0199", <<"U+0198">>>>, <<"U+019A", <<"U+023D">>>>, <<"U+019E", <<"U+0220">>>>,
      <<"U+01A1", <<"U+01A0">>>>, <<"U+01A3", <<"U+01A2">>>>, <<"U+01A5", <<"U+01A4">>>>,
      <<"U+01A8", <<"U+01A7">>>>, <<"U+01AD", <<"U+01AC">>>>, <<"U+01B0", <<"U+01AF">>>>,
      <<"U+01B4", <<"U+01B3">>>>, <<"U+01B6", <<"U+01B5">>>>, <<"U+01B9", <<"U+01B8">>>>,
      <<"U+01BD", <<"U+01BC">>>>, <<"U+01BF", <<"U+01F7">>>>, <<"U+01C5", <<"U+01C4">>>>,
      <<"U+01C6", <<"U+01C4">>>>, <<"U+01C8", <<"U+01C7">>>>, <<"U+01C9", <<"U+01C7">>>>,
      <<"U+01CB", <<"U+01CA">>>>, <<"U+01CC", <<"U+01CA">>>>, <<"U+01CE", <<"U+01CD">>>>,
      <<"U+01D0", <<"U+01CF">>>>, <<"U+01D2", <<"U+01D1">>>>, <<"U+01D4", <<"U+01D3">>>>,
      <<"U+01D6", <<"U+01D5">>>>, <<"U+01D8", <<"U+01D7">>>>, <<"U+01DA", <<"U+01D9">>>>,
      <<"U+01DC", <<"U+01DB">>>>, <<"U+01DD", <<"U+018E">>>>, <<"U+01DF", <<"U+01DE">>>>,
      <<"U+01E1", <<"U+01E0">>>>, <<"U+01E3", <<"U+01E2">>>>, <<"U+01E5", <<"U+01E4">>>>,
      <<"U+01E7", <<"U+01E6">>>>, <<"U+01E9", <<"U+01E8">>>>, <<"U+01EB", <<"U+01EA">>>>,
      <<"U+01ED", <<"U+01EC">>>>, <<"U+01EF", <<"U+01EE">>>>, <<"U+01F0", <<"J", "U+030C">>>>,
      <<"U+01F2", <<"U+01F1">>>>, <<"U+01F3", <<"U+01F1">>>>, <<"U+01F5", <<"U+01F4">>>>,
      <<"U+01F9", <<"U+01F8">>>>, <<"U+01FB", <<"U+01FA">>>>, <<"U+01FD", <<"U+01FC">>>>,
      <<"U+01FF", <<"U+01FE">>>>, <<"U+0201", <<"U+0200">>>>, <<"U+0203", <<"U+0202">>>>,
      <<"U+0205", <<"U+0204">>>>, <<"U+0207", <<"U+0206">>>>, <<"U+0209", <<"U+0208">>>>,
      <<"U+020B", <<"U+020A">>>>, <<"U+020D", <<"U+020C">>>>, <<"U+020F", <<"U+020E">>>>,
      <<"U+0211", <<"U+0210">>>>, <<"U+0213", <<"U+0212">>>>, <<"U+0215", <<"U+0214">>>>,
      <<"U+0217", <<"U+0216">>>>, <<"U+0219", <<"U+0218">>>>, <<"U+021B", <<"U+021A">>>>,
      <<"U+021D", <<"U+021C">>>>, <<"U+021F", <<"U+021E">>>>, <<"U+0223", <<"U+0222">>>>,
      <<"U+0225", <<"U+0224">>>>, <<"U+0227", <<"U+0226">>>>, <<"U+0229", <<"U+0228">>>>,
      <<"U+022B", <<"U+022A">>>>, <<"U+022D", <<"U+022C">>>>, <<"U+022F", <<"U+022E">>>>,
      <<"U+0231", <<"U+0230">>>>, <<"U+0233", <<"U+0232">>>>, <<"U+023C", <<"U+023B">>>>,
      <<"U+023F", <<"U+2C7E">>>>, <<"U+0240", <<"U+2C7F">>>>, <<"U+0242", <<"U+0241">>>>,
      <<"U+0247", <<"U+0246">>>>, <<"U+0249", <<"U+0248">>>>, <<"U+024B", <<"U+024A">>>>,
      <<"U+024D", <<"U+024C">>>>, <<"U+024F", <<"U+024E">>>>, <<"U+0250", <<"U+2C6F">>>>,
      <<"U+0251", <<"U+2C6D">>>>, <<"U+0252", <<"U+2C70">>>>, <<"U+0253", <<"U+0181">>>>,
      <<"U+0254", <<"U+0186">>>>, <<"U+0256", <<"U+0189">>>>, <<"U+0257", <<"U+018A">>>>,
      <<"U+0259", <<"U+018F">>>>, <<"U+025B", <<"U+0190">>>>, <<"U+025C", <<"U+A7AB">>>>,
      <<"U+0260", <<"U+0193">>>>, <<"U+0261", <<"U+A7AC">>>>, <<"U+0263", <<"U+0194">>>>,
      <<"U+0265", <<"U+A78D">>>>, <<"U+0266", <<"U+A7AA">>>>, <<"U+0268", <<"U+0197">>>>,
      <<"U+0269", <<"U+0196">>>>, <<"U+026A", <<"U+A7AE">>>>, <<"U+026B", <<"U+2C62">>>>,
      <<"U+026C", <<"U+A7AD">>>>, <<"U+026F", <<"U+019C">>>>, <<"U+0271", <<"U+2C6E">>>>,
      <<"U+0272", <<"U+019D">>>>, <<"U+0275", <<"U+019F">>>>, <<"U+027D", <<"U+2C64">>>>,
      <<"U+0280", <<"U+01A6">>>>, <<"U+0282", <<"U+A7C5">>>>, <<"U+0283", <<"U+01A9">>>>,
      <<"U+0287", <<"U+A7B1">>>>, <<"U+0288", <<"U+01AE">>>>, <<"U+0289", <<"U+0244">>>>,
      <<"U+028A", <<"U+01B1">>>>, <<"U+028B", <<"U+01B2">>>>, <<"U+028C", <<"U+0245">>>>,
      <<"U+0292", <<"U+01B7">>>>, <<"U+029D", <<"U+A7B2">>>>, <<"U+029E", <<"U+A7B0">>>>,
      <<"U+0345", <<"U+0399">>>>, <<"U+0371", <<"U+0370">>>>, <<"U+0373", <<"U+0372">>>>,
      <<"U+0377", <<"U+0376">>>>, <<"U+037B", <<"U+03FD">>>>, <<"U+037C", <<"U+03FE">>>>,
      <<"U+037D", <<"U+03FF">>>>, <<"U+0390", <<"U+0399", "U+0308", "U+0301">>>>,
      <<"U+03AC", <<"U+0386">>>>, <<"U+03AD", <<"U+0388">>>>, <<"U+03AE", <<"U+0389">>>>,
      <<"U+03AF", <<"U+038A">>>>, <<"U+03B0", <<"U+03A5", "U+0308", "U+0301">>>>,
      <<"U+03B1", <<"U+0391">>>>, <<"U+03B2", <<"U+0392">>>>, <<"U+03B3", <<"U+0393">>>>,
      <<"U+03B4", <<"U+0394">>>>, <<"U+03B5", <<"U+0395">>>>, <<"U+03B6", <<"U+0396">>>>,
      <<"U+03B7", <<"U+0397">>>>, <<"U+03B8", <<"U+0398">>>>, <<"U+03B9", <<"U+0399">>>>,
      <<"U+03BA", <<"U+039A">>>>, <<"U+03BB", <<"U+039B">>>>, <<"U+03BC", <<"U+039C">>>>,
      <<"U+03BD", <<"U+039D">>>>, <<"U+03BE", <<"U+039E">>>>, <<"U+03BF", <<"U+039F">>>>,
      <<"U+03C0", <<"U+03A0">>>>, <<"U+03C1", <<"U+03A1">>>>, <<"U+03C2", <<"U+03A3">>>>,
      <<"U+03C3", <<"U+03A3">>>>, <<"U+03C4", <<"U+03A4">>>>, <<"U+03C5", <<"U+03A5">>>>,
      <<"U+03C6", <<"U+03A6">>>>, <<"U+03C7", <<"U+03A7">>>>, <<"U+03C8", <<"U+03A8">>>>,
      <<"U+03C9", <<"U+03A9">>>>, <<"U+03CA", <<"U+03AA">>>>, <<"U+03CB", <<"U+03AB">>>>,
      <<"U+03CC", <<"U+038C">>>>, <<"U+03CD", <<"U+038E">>>>, <<"U+03CE", <<"U+038F">>>>,
      <<"U+03D0", <<"U+0392">>>>, <<"U+03D1", <<"U+0398">>>>, <<"U+03D5", <<"U+03A6">>>>,
      <<"U+03D6", <<"U+03A0">>>>, <<"U+03D7", <<"U+03CF">>>>, <<"U+03D9", <<"U+03D8">>>>,
      <<"U+03DB", <<"U+03DA">>>>, <<"U+03DD", <<"U+03DC">>>>, <<"U+03DF", <<"U+03DE">>>>,
      <<"U+03E1", <<"U+03E0">>>>, <<"U+03E3", <<"U+03E2">>>>, <<"U+03E5", <<"U+03E4">>>>,
      <<"U+03E7", <<"U+03E6">>>>, <<"U+03E9", <<"U+03E8">>>>, <<"U+03EB", <<"U+03EA">>>>,
      <<"U+03ED", <<"U+03EC">>>>, <<"U+03EF", <<"U+03EE">>>>, <<"U+03F0", <<"U+039A">>>>,
      <<"U+03F1", <<"U+03A1">>>>, <<"U+03F2", <<"U+03F9">>>>, <<"U+03F3", <<"U+037F">>>>,
      <<"U+03F5", <<"U+0395">>>>, <<"U+03F8", <<"U+03F7">>>>, <<"U+03FB", <<"U+03FA">>>>,
      <<"U+0430", <<"U+0410">>>>, <<"U+0431", <<"U+0411">>>>, <<"U+0432", <<"U+0412">>>>,
      <<"U+0433", <<"U+0413">>>>, <<"U+0434", <<"U+0414">>>>, <<"U+0435", <<"U+0415">>>>,
      <<"U+0436", <<"U+0416">>>>, <<"U+0437", <<"U+0417">>>>, <<"U+0438", <<"U+0418">>>>,
      <<"U+0439", <<"U+0419">>>>, <<"U+043A", <<"U+041A">>>>, <<"U+043B", <<"U+041B">>>>,
      <<"U+043C", <<"U+041C">>>>, <<"U+043D", <<"U+041D">>>>, <<"U+043E", <<"U+041E">>>>,
      <<"U+043F", <<"U+041F">>>>, <<"U+0440", <<"U+0420">>>>, <<"U+0441", <<"U+0421">>>>,
      <<"U+0442", <<"U+0422">>>>, <<"U+0443", <<"U+0423">>>>, <<"U+0444", <<"U+0424">>>>,
      <<"U+0445", <<"U+0425">>>>, <<"U+0446", <<"U+0426">>>>, <<"U+0447", <<"U+0427">>>>,
      <<"U+0448", <<"U+0428">>>>, <<"U+0449", <<"U+0429">>>>, <<"U+044A", <<"U+042A">>>>,
      <<"U+044B", <<"U+042B">>>>, <<"U+044C", <<"U+042C">>>>, <<"U+044D", <<"U+042D">>>>,
      <<"U+044E", <<"U+042E">>>>, <<"U+044F", <<"U+042F">>>>, <<"U+0450", <<"U+0400">>>>,
      <<"U+0451", <<"U+0401">>>>, <<"U+0452", <<"U+0402">>>>, <<"U+0453", <<"U+0403">>>>,
      <<"U+0454", <<"U+0404">>>>, <<"U+0455", <<"U+0405">>>>, <<"U+0456", <<"U+0406">>>>,
      <<"U+0457", <<"U+0407">>>>, <<"U+0458", <<"U+0408">>>>, <<"U+0459", <<"U+0409">>>>,
      <<"U+045A", <<"U+040A">>>>, <<"U+045B", <<"U+040B">>>>, <<"U+045C", <<"U+040C">>>>,
      <<"U+045D", <<"U+040D">>>>, <<"U+045E", <<"U+040E">>>>, <<"U+045F", <<"U+040F">>>>,
      <<"U+0461", <<"U+0460">>>>, <<"U+0463", <<"U+0462">>>>, <<"U+0465", <<"U+0464">>>>,
      <<"U+0467", <<"U+0466">>>>, <<"U+0469", <<"U+0468">>>>, <<"U+046B", <<"U+046A">>>>,
      <<"U+046D", <<"U+046C">>>>, <<"U+046F", <<"U+046E">>>>, <<"U+0471", <<"U+0470">>>>,
      <<"U+0473", <<"U+0472">>>>, <<"U+0475", <<"U+0474">>>>, <<"U+0477", <<"U+0476">>>>,
      <<"U+0479", <<"U+0478">>>>, <<"U+047B", <<"U+047A">>>>, <<"U+047D", <<"U+047C">>>>,
      <<"U+047F", <<"U+047E">>>>, <<"U+0481", <<"U+0480">>>>, <<"U+048B", <<"U+048A">>>>,
      <<"U+048D", <<"U+048C">>>>, <<"U+048F", <<"U+048E">>>>, <<"U+0491", <<"U+0490">>>>,
      <<"U+0493", <<"U+0492">>>>, <<"U+0495", <<"U+0494">>>>, <<"U+0497", <<"U+0496">>>>,
      <<"U+0499", <<"U+0498">>>>, <<"U+049B", <<"U+049A">>>>, <<"U+049D", <<"U+049C">>>>,
      <<"U+049F", <<"U+049E">>>>, <<"U+04A1", <<"U+04A0">>>>, <<"U+04A3", <<"U+04A2">>>>,
      <<"U+04A5", <<"U+04A4">>>>, <<"U+04A7", <<"U+04A6">>>>, <<"U+04A9", <<"U+04A8">>>>,
      <<"U+04AB", <<"U+04AA">>>>, <<"U+04AD", <<"U+04AC">>>>, <<"U+04AF", <<"U+04AE">>>>,
      <<"U+04B1", <<"U+04B0">>>>, <<"U+04B3", <<"U+04B2">>>>, <<"U+04B5", <<"U+04B4">>>>,
      <<"U+04B7", <<"U+04B6">>>>, <<"U+04B9", <<"U+04B8">>>>, <<"U+04BB", <<"U+04BA">>>>,
      <<"U+04BD", <<"U+04BC">>>>, <<"U+04BF", <<"U+04BE">>>>, <<"U+04C2", <<"U+04C1">>>>,
      <<"U+04C4", <<"U+04C3">>>>, <<"U+04C6", <<"U+04C5">>>>, <<"U+04C8", <<"U+04C7">>>>,
      <<"U+04CA", <<"U+04C9">>>>, <<"U+04CC", <<"U+04CB">>>>, <<"U+04CE", <<"U+04CD">>>>,
      <<"U+04CF", <<"U+04C0">>>>, <<"U+04D1", <<"U+04D0">>>>, <<"U+04D3", <<"U+04D2">>>>,
      <<"U+04D5", <<"U+04D4">>>>, <<"U+04D7", <<"U+04D6">>>>, <<"U+04D9", <<"U+04D8">>>>,
      <<"U+04DB", <<"U+04DA">>>>, <<"U+04DD", <<"U+04DC">>>>, <<"U+04DF", <<"U+04DE">>>>,
      <<"U+04E1", <<"U+04E0">>>>, <<"U+04E3", <<"U+04E2">>>>, <<"U+04E5", <<"U+04E4">>>>,
      <<"U+04E7", <<"U+04E6">>>>, <<"U+04E9", <<"U+04E8">>>>, <<"U+04EB", <<"U+04EA">>>>,
      <<"U+04ED", <<"U+04EC">>>>, <<"U+04EF", <<"U+04EE">>>>, <<"U+04F1", <<"U+04F0">>>>,
      <<"U+04F3", <<"U+04F2">>>>, <<"U+04F5", <<"U+04F4">>>>, <<"U+04F7", <<"U+04F6">>>>,
      <<"U+04F9", <<"U+04F8">>>>, <<"U+04FB", <<"U+04FA">>>>, <<"U+04FD", <<"U+04FC">>>>,
      <<"U+04FF", <<"U+04FE">>>>, <<"U+0501", <<"U+0500">>>>, <<"U+0503", <<"U+0502">>>>,
      <<"U+0505", <<"U+0504">>>>, <<"U+0507", <<"U+0506">>>>, <<"U+0509", <<"U+0508">>>>,
      <<"U+050B", <<"U+050A">>>>, <<"U+050D", <<"U+050C">>>>, <<"U+050F", <<"U+050E">>>>,
      <<"U+0511", <<"U+0510">>>>, <<"U+0513", <<"U+0512">>>>, <<"U+0515", <<"U+0514">>>>,
      <<"U+0517", <<"U+0516">>>>, <<"U+0519", <<"U+0518">>>>, <<"U+051B", <<"U+051A">>>>,
      <<"U+051D", <<"U+051C">>>>, <<"U+051F", <<"U+051E">>>>, <<"U+0521", <<"U+0520">>>>,
      <<"U+0523", <<"U+0522">>>>, <<"U+0525", <<"U+0524">>>>, <<"U+0527", <<"U+0526">>>>,
      <<"U+0529", <<"U+0528">>>>, <<"U+052B", <<"U+052A">>>>, <<"U+052D", <<"U+052C">>>>,
      <<"U+052F", <<"U+052E">>>>, <<"U+0561", <<"U+0531">>>>, <<"U+0562", <<"U+0532">>>>,
      <<"U+0563", <<"U+0533">>>>, <<"U+0564", <<"U+0534">>>>, <<"U+0565", <<"U+0535">>>>,
      <<"U+0566", <<"U+0536">>>>, <<"U+0567", <<"U+0537">>>>, <<"U+0568", <<"U+0538">>>>,
      <<"U+0569", <<"U+0539">>>>, <<"U+056A", <<"U+053A">>>>, <<"U+056B", <<"U+053B">>>>,
      <<"U+056C", <<"U+053C">>>>, <<"U+056D", <<"U+053D">>>>, <<"U+056E", <<"U+053E">>>>,
      <<"U+056F", <<"U+053F">>>>, <<"U+0570", <<"U+0540">>>>, <<"U+0571", <<"U+0541">>>>,
      <<"U+0572", <<"U+0542">>>>, <<"U+0573", <<"U+0543">>>>, <<"U+0574", <<"U+0544">>>>,
      <<"U+0575", <<"U+0545">>>>, <<"U+0576", <<"U+0546">>>>, <<"U+0577", <<"U+0547">>>>,
      <<"U+0578", <<"U+0548">>>>, <<"U+0579", <<"U+0549">>>>, <<"U+057A", <<"U+054A">>>>,
      <<"U+057B", <<"U+054B">>>>, <<"U+057C", <<"U+054C">>>>, <<"U+057D", <<"U+054D">>>>,
      <<"U+057E", <<"U+054E">>>>, <<"U+057F", <<"U+054F">>>>, <<"U+0580", <<"U+0550">>>>,
      <<"U+0581", <<"U+0551">>>>, <<"U+0582", <<"U+0552">>>>, <<"U+0583", <<"U+0553">>>>,
      <<"U+0584", <<"U+0554">>>>, <<"U+0585", <<"U+0555">>>>, <<"U+0586", <<"U+0556">>>>,
      <<"U+0587", <<"U+0535", "U+0552">>>>, <<"U+10D0", <<"U+1C90">>>>, <<"U+10D1", <<"U+1C91">>>>,
      <<"U+10D2", <<"U+1C92">>>>, <<"U+10D3", <<"U+1C93">>>>, <<"U+10D4", <<"U+1C94">>>>,
      <<"U+10D5", <<"U+1C95">>>>, <<"U+10D6", <<"U+1C96">>>>, <<"U+10D7", <<"U+1C97">>>>,
      <<"U+10D8", <<"U+1C98">>>>, <<"U+10D9", <<"U+1C99">>>>, <<"U+10DA", <<"U+1C9A">>>>,
      <<"U+10DB", <<"U+1C9B">>>>, <<"U+10DC", <<"U+1C9C">>>>, <<"U+10DD", <<"U+1C9D">>>>,
      <<"U+10DE", <<"U+1C9E">>>>, <<"U+10DF", <<"U+1C9F">>>>, <<"U+10E0", <<"U+1CA0">>>>,
      <<"U+10E1", <<"U+1CA1">>>>, <<"U+10E2", <<"U+1CA2">>>>, <<"U+10E3", <<"U+1CA3">>>>,
      <<"U+10E4", <<"U+1CA4">>>>, <<"U+10E5", <<"U+1CA5">>>>, <<"U+10E6", <<"U+1CA6">>>>,
      <<"U+10E7", <<"U+1CA7">>>>, <<"U+10E8", <<"U+1CA8">>>>, <<"U+10E9", <<"U+1CA9">>>>,
      <<"U+10EA", <<"U+1CAA">>>>, <<"U+10EB", <<"U+1CAB">>>>, <<"U+10EC", <<"U+1CAC">>>>,
      <<"U+10ED", <<"U+1CAD">>>>, <<"U+10EE", <<"U+1CAE">>>>, <<"U+10EF", <<"U+1CAF">>>>,
      <<"U+10F0", <<"U+1CB0">>>>, <<"U+10F1", <<"U+1CB1">>>>, <<"U+10F2", <<"U+1CB2">>>>,
      <<"U+10F3", <<"U+1CB3">>>>, <<"U+10F4", <<"U+1CB4">>>>, <<"U+10F5", <<"U+1CB5">>>>,
      <<"U+10F6", <<"U+1CB6">>>>, <<"U+10F7", <<"U+1CB7">>>>, <<"U+10F8", <<"U+1CB8">>>>,
      <<"U+10F9", <<"U+1CB9">>>>, <<"U+10FA", <<"U+1CBA">>>>, <<"U+10FD", <<"U+1CBD">>>>,
      <<"U+10FE", <<"U+1CBE">>>>, <<"U+10FF", <<"U+1CBF">>>>, <<"U+13F8", <<"U+13F0">>>>,
      <<"U+13F9", <<"U+13F1">>>>, <<"U+13FA", <<"U+13F2">>>>, <<"U+13FB", <<"U+13F3">>>>,
      <<"U+13FC", <<"U+13F4">>>>, <<"U+13FD", <<"U+13F5">>>>, <<"U+1C80", <<"U+0412">>>>,
      <<"U+1C81", <<"U+0414">>>>, <<"U+1C82", <<"U+041E">>>>, <<"U+1C83", <<"U+0421">>>>,
      <<"U+1C84", <<"U+0422">>>>, <<"U+1C85", <<"U+0422">>>>, <<"U+1C86", <<"U+042A">>>>,
      <<"U+1C87", <<"U+0462">>>>, <<"U+1C88", <<"U+A64A">>>>, <<"U+1D79", <<"U+A77D">>>>,
      <<"U+1D7D", <<"U+2C63">>>>, <<"U+1D8E", <<"U+A7C6">>>>, <<"U+1E01", <<"U+1E00">>>>,
      <<"U+1E03", <<"U+1E02">>>>, <<"U+1E05", <<"U+1E04">>>>, <<"U+1E07", <<"U+1E06">>>>,
      <<"U+1E09", <<"U+1E08">>>>, <<"U+1E0B", <<"U+1E0A">>>>, <<"U+1E0D", <<"U+1E0C">>>>,
      <<"U+1E0F", <<"U+1E0E">>>>, <<"U+1E11", <<"U+1E10">>>>, <<"U+1E13", <<"U+1E12">>>>,
      <<"U+1E15", <<"U+1E14">>>>, <<"U+1E17", <<"U+1E16">>>>, <<"U+1E19", <<"U+1E18">>>>,
      <<"U+1E1B", <<"U+1E1A">>>>, <<"U+1E1D", <<"U+1E1C">>>>, <<"U+1E1F", <<"U+1E1E">>>>,
      <<"U+1E21", <<"U+1E20">>>>, <<"U+1E23", <<"U+1E22">>>>, <<"U+1E25", <<"U+1E24">>>>,
      <<"U+1E27", <<"U+1E26">>>>, <<"U+1E29", <<"U+1E28">>>>, <<"U+1E2B", <<"U+1E2A">>>>,
      <<"U+1E2D", <<"U+1E2C">>>>, <<"U+1E2F", <<"U+1E2E">>>>, <<"U+1E31", <<"U+1E30">>>>,
      <<"U+1E33", <<"U+1E32">>>>, <<"U+1E35", <<"U+1E34">>>>, <<"U+1E37", <<"U+1E36">>>>,
      <<"U+1E39", <<"U+1E38">>>>, <<"U+1E3B", <<"U+1E3A">>>>, <<"U+1E3D", <<"U+1E3C">>>>,
      <<"U+1E3F", <<"U+1E3E">>>>, <<"U+1E41", <<"U+1E40">>>>, <<"U+1E43", <<"U+1E42">>>>,
      <<"U+1E45", <<"U+1E44">>>>, <<"U+1E47", <<"U+1E46">>>>, <<"U+1E49", <<"U+1E48">>>>,
      <<"U+1E4B", <<"U+1E4A">>>>, <<"U+1E4D", <<"U+1E4C">>>>, <<"U+1E4F", <<"U+1E4E">>>>,
      <<"U+1E51", <<"U+1E50">>>>, <<"U+1E53", <<"U+1E52">>>>, <<"U+1E55", <<"U+1E54">>>>,
      <<"U+1E57", <<"U+1E56">>>>, <<"U+1E59", <<"U+1E58">>>>, <<"U+1E5B", <<"U+1E5A">>>>,
      <<"U+1E5D", <<"U+1E5C">>>>, <<"U+1E5F", <<"U+1E5E">>>>, <<"U+1E61", <<"U+1E60">>>>,
      <<"U+1E63", <<"U+1E62">>>>, <<"U+1E65", <<"U+1E64">>>>, <<"U+1E67", <<"U+1E66">>>>,
      <<"U+1E69", <<"U+1E68">>>>, <<"U+1E6B", <<"U+1E6A">>>>, <<"U+1E6D", <<"U+1E6C">>>>,
      <<"U+1E6F", <<"U+1E6E">>>>, <<"U+1E71", <<"U+1E70">>>>, <<"U+1E73", <<"U+1E72">>>>,
      <<"U+1E75", <<"U+1E74">>>>, <<"U+1E77", <<"U+1E76">>>>, <<"U+1E79", <<"U+1E78">>>>,
      <<"U+1E7B", <<"U+1E7A">>>>, <<"U+1E7D", <<"U+1E7C">>>>, <<"U+1E7F", <<"U+1E7E">>>>,
      <<"U+1E81", <<"U+1E80">>>>, <<"U+1E83", <<"U+1E82">>>>, <<"U+1E85", <<"U+1E84">>>>,
      <<"U+1E87", <<"U+1E86">>>>, <<"U+1E89", <<"U+1E88">>>>, <<"U+1E8B", <<"U+1E8A">>>>,
      <<"U+1E8D", <<"U+1E8C">>>>, <<"U+1E8F", <<"U+1E8E">>>>, <<"U+1E91", <<"U+1E90">>>>,
      <<"U+1E93", <<"U+1E92">>>>, <<"U+1E95", <<"U+1E94">>>>, <<"U+1E96", <<"H", "U+0331">>>>,
      <<"U+1E97", <<"T", "U+0308">>>>, <<"U+1E98", <<"W", "U+030A">>>>, <<"U+1E99", <<"Y", "U+030A">>>>,
      <<"U+1E9A", <<"A", "U+02BE">>>>, <<"U+1E9B", <<"U+1E60">>>>, <<"U+1EA1", <<"U+1EA0">>>>,
      <<"U+1EA3", <<"U+1EA2">>>>, <<"U+1EA5", <<"U+1EA4">>>>, <<"U+1EA7", <<"U+1EA6">>>>,
      <<"U+1EA9", <<"U+1EA8">>>>, <<"U+1EAB", <<"U+1EAA">>>>, <<"U+1EAD", <<"U+1EAC">>>>,
      <<"U+1EAF", <<"U+1EAE">>>>, <<"U+1EB1", <<"U+1EB0">>>>, <<"U+1EB3", <<"U+1EB2">>>>,
      <<"U+1EB5", <<"U+1EB4">>>>, <<"U+1EB7", <<"U+1EB6">>>>, <<"U+1EB9", <<"U+1EB8">>>>,
      <<"U+1EBB", <<"U+1EBA">>>>, <<"U+1EBD", <<"U+1EBC">>>>, <<"U+1EBF", <<"U+1EBE">>>>,
      <<"U+1EC1", <<"U+1EC0">>>>, <<"U+1EC3", <<"U+1EC2">>>>, <<"U+1EC5", <<"U+1EC4">>>>,
      <<"U+1EC7", <<"U+1EC6">>>>, <<"U+1EC9", <<"U+1EC8">>>>, <<"U+1ECB", <<"U+1ECA">>>>,
      <<"U+1ECD", <<"U+1ECC">>>>, <<"U+1ECF", <<"U+1ECE">>>>, <<"U+1ED1", <<"U+1ED0">>>>,
      <<"U+1ED3", <<"U+1ED2">>>>, <<"U+1ED5", <<"U+1ED4">>>>, <<"U+1ED7", <<"U+1ED6">>>>,
      <<"U+1ED9", <<"U+1ED8">>>>, <<"U+1EDB", <<"U+1EDA">>>>, <<"U+1EDD", <<"U+1EDC">>>>,
      <<"U+1EDF", <<"U+1EDE">>>>, <<"U+1EE1", <<"U+1EE0">>>>, <<"U+1EE3", <<"U+1EE2">>>>,
      <<"U+1EE5", <<"U+1EE4">>>>, <<"U+1EE7", <<"U+1EE6">>>>, <<"U+1EE9", <<"U+1EE8">>>>,
      <<"U+1EEB", <<"U+1EEA">>>>, <<"U+1EED", <<"U+1EEC">>>>, <<"U+1EEF", <<"U+1EEE">>>>,
      <<"U+1EF1", <<"U+1EF0">>>>, <<"U+1EF3", <<"U+1EF2">>>>, <<"U+1EF5", <<"U+1EF4">>>>,
      <<"U+1EF7", <<"U+1EF6">>>>, <<"U+1EF9", <<"U+1EF8">>>>, <<"U+1EFB", <<"U+1EFA">>>>,
      <<"U+1EFD", <<"U+1EFC">>>>, <<"U+1EFF", <<"U+1EFE">>>>, <<"U+1F00", <<"U+1F08">>>>,
      <<"U+1F01", <<"U+1F09">>>>, <<"U+1F02", <<"U+1F0A">>>>, <<"U+1F03", <<"U+1F0B">>>>,
      <<"U+1F04", <<"U+1F0C">>>>, <<"U+1F05", <<"U+1F0D">>>>, <<"U+1F06", <<"U+1F0E">>>>,
      <<"U+1F07", <<"U+1F0F">>>>, <<"U+1F10", <<"U+1F18">>>>, <<"U+1F11", <<"U+1F19">>>>,
      <<"U+1F12", <<"U+1F1A">>>>, <<"U+1F13", <<"U+1F1B">>>>, <<"U+1F14", <<"U+1F1C">>>>,
      <<"U+1F15", <<"U+1F1D">>>>, <<"U+1F20", <<"U+1F28">>>>, <<"U+1F21", <<"U+1F29">>>>,
      <<"U+1F22", <<"U+1F2A">>>>, <<"U+1F23", <<"U+1F2B">>>>, <<"U+1F24", <<"U+1F2C">>>>,
      <<"U+1F25", <<"U+1F2D">>>>, <<"U+1F26", <<"U+1F2E">>>>, <<"U+1F27", <<"U+1F2F">>>>,
      <<"U+1F30", <<"U+1F38">>>>, <<"U+1F31", <<"U+1F39">>>>, <<"U+1F32", <<"U+1F3A">>>>,
      <<"U+1F33", <<"U+1F3B">>>>, <<"U+1F34", <<"U+1F3C">>>>, <<"U+1F35", <<"U+1F3D">>>>,
      <<"U+1F36", <<"U+1F3E">>>>, <<"U+1F37", <<"U+1F3F">>>>, <<"U+1F40", <<"U+1F48">>>>,
      <<"U+1F41", <<"U+1F49">>>>, <<"U+1F42", <<"U+1F4A">>>>, <<"U+1F43", <<"U+1F4B">>>>,
      <<"U+1F44", <<"U+1F4C">>>>, <<"U+1F45", <<"U+1F4D">>>>, <<"U+1F50", <<"U+03A5", "U+0313">>>>,
      <<"U+1F51", <<"U+1F59">>>>, <<"U+1F52", <<"U+03A5", "U+0313", "U+0300">>>>,
      <<"U+1F53", <<"U+1F5B">>>>, <<"U+1F54", <<"U+03A5", "U+0313", "U+0301">>>>,
      <<"U+1F55", <<"U+1F5D">>>>, <<"U+1F56", <<"U+03A5", "U+0313", "U+0342">>>>,
      <<"U+1F57", <<"U+1F5F">>>>, <<"U+1F60", <<"U+1F68">>>>, <<"U+1F61", <<"U+1F69">>>>,
      <<"U+1F62", <<"U+1F6A">>>>, <<"U+1F63", <<"U+1F6B">>>>, <<"U+1F64", <<"U+1F6C">>>>,
      <<"U+1F65", <<"U+1F6D">>>>, <<"U+1F66", <<"U+1F6E">>>>, <<"U+1F67", <<"U+1F6F">>>>,
      <<"U+1F70", <<"U+1FBA">>>>, <<"U+1F71", <<"U+1FBB">>>>, <<"U+1F72", <<"U+1FC8">>>>,
      <<"U+1F73", <<"U+1FC9">>>>, <<"U+1F74", <<"U+1FCA">>>>, <<"U+1F75", <<"U+1FCB">>>>,
      <<"U+1F76", <<"U+1FDA">>>>, <<"U+1F77", <<"U+1FDB">>>>, <<"U+1F78", <<"U+1FF8">>>>,
      <<"U+1F79", <<"U+1FF9">>>>, <<"U+1F7A", <<"U+1FEA">>>>, <<"U+1F7B", <<"U+1FEB">>>>,
      <<"U+1F7C", <<"U+1FFA">>>>, <<"U+1F7D", <<"U+1FFB">>>>, <<"U+1F80", <<"U+1F08", "U+0399">>>>,
      <<"U+1F81", <<"U+1F09", "U+0399">>>>, <<"U+1F82", <<"U+1F0A", "U+0399">>>>,
      <<"U+1F83", <<"U+1F0B", "U+0399">>>>, <<"U+1F84", <<"U+1F0C", "U+0399">>>>,
      <<"U+1F85", <<"U+1F0D", "U+0399">>>>, <<"U+1F86", <<"U+1F0E", "U+0399">>>>,
      <<"U+1F87", <<"U+1F0F", "U+0399">>>>, <<"U+1F88", <<"U+1F08", "U+0399">>>>,
      <<"U+1F89", <<"U+1F09", "U+0399">>>>, <<"U+1F8A", <<"U+1F0A", "U+0399">>>>,
      <<"U+1F8B", <<"U+1F0B", "U+0399">>>>, <<"U+1F8C", <<"U+1F0C", "U+0399">>>>,
      <<"U+1F8D", <<"U+1F0D", "U+0399">>>>, <<"U+1F8E", <<"U+1F0E", "U+0399">>>>,
      <<"U+1F8F", <<"U+1F0F", "U+0399">>>>, <<"U+1F90", <<"U+1F28", "U+0399">>>>,
      <<"U+1F91", <<"U+1F29", "U+0399">>>>, <<"U+1F92", <<"U+1F2A", "U+0399">>>>,
      <<"U+1F93", <<"U+1F2B", "U+0399">>>>, <<"U+1F94", <<"U+1F2C", "U+0399">>>>,
      <<"U+1F95", <<"U+1F2D", "U+0399">>>>, <<"U+1F96", <<"U+1F2E", "U+0399">>>>,
      <<"U+1F97", <<"U+1F2F", "U+0399">>>>, <<"U+1F98", <<"U+1F28", "U+0399">>>>,
      <<"U+1F99", <<"U+1F29", "U+0399">>>>, <<"U+1F9A", <<"U+1F2A", "U+0399">>>>,
      <<"U+1F9B", <<"U+1F2B", "U+0399">>>>, <<"U+1F9C", <<"U+1F2C", "U+0399">>>>,
      <<"U+1F9D", <<"U+1F2D", "U+0399">>>>, <<"U+1F9E", <<"U+1F2E", "U+0399">>>>,
      <<"U+1F9F", <<"U+1F2F", "U+0399">>>>, <<"U+1FA0", <<"U+1F68", "U+0399">>>>,
      <<"U+1FA1", <<"U+1F69", "U+0399">>>>, <<"U+1FA2", <<"U+1F6A", "U+0399">>>>,
      <<"U+1FA3", <<"U+1F6B", "U+0399">>>>, <<"U+1FA4", <<"U+1F6C", "U+0399">>>>,
      <<"U+1FA5", <<"U+1F6D", "U+0399">>>>, <<"U+1FA6", <<"U+1F6E", "U+0399">>>>,
      <<"U+1FA7", <<"U+1F6F", "U+0399">>>>, <<"U+1FA8", <<"U+1F68", "U+0399">>>>,
      <<"U+1FA9", <<"U+1F69", "U+0399">>>>, <<"U+1FAA", <<"U+1F6A", "U+0399">>>>,
      <<"U+1FAB", <<"U+1F6B", "U+0399">>>>, <<"U+1FAC", <<"U+1F6C", "U+0399">>>>,
      <<"U+1FAD", <<"U+1F6D", "U+0399">>>>, <<"U+1FAE", <<"U+1F6E", "U+0399">>>>,
      <<"U+1FAF", <<"U+1F6F", "U+0399">>>>, <<"U+1FB0", <<"U+1FB8">>>>, <<"U+1FB1", <<"U+1FB9">>>>,
      <<"U+1FB2", <<"U+1FBA", "U+0399">>>>, <<"U+1FB3", <<"U+0391", "U+0399">>>>,
      <<"U+1FB4", <<"U+0386", "U+0399">>>>, <<"U+1FB6", <<"U+0391", "U+0342">>>>,
      <<"U+1FB7", <<"U+0391", "U+0342", "U+0399">>>>, <<"U+1FBC", <<"U+0391", "U+0399">>>>,
      <<"U+1FBE", <<"U+0399">>>>, <<"U+1FC2", <<"U+1FCA", "U+0399">>>>, <<"U+1FC3", <<"U+0397", "U+0399">>>>,
      <<"U+1FC4", <<"U+0389", "U+0399">>>>, <<"U+1FC6", <<"U+0397", "U+0342">>>>,
      <<"U+1FC7", <<"U+0397", "U+0342", "U+0399">>>>, <<"U+1FCC", <<"U+0397", "U+0399">>>>,
      <<"U+1FD0", <<"U+1FD8">>>>, <<"U+1FD1", <<"U+1FD9">>>>, <<"U+1FD2", <<"U+0399", "U+0308", "U+0300">>>>,
      <<"U+1FD3", <<"U+0399", "U+0308", "U+0301">>>>, <<"U+1FD6", <<"U+0399", "U+0342">>>>,
      <<"U+1FD7", <<"U+0399", "U+0308", "U+0342">>>>, <<"U+1FE0", <<"U+1FE8">>>>,
      <<"U+1FE1", <<"U+1FE9">>>>, <<"U+1FE2", <<"U+03A5", "U+0308", "U+0300">>>>,
      <<"U+1FE3", <<"U+03A5", "U+0308", "U+0301">>>>, <<"U+1FE4", <<"U+03A1", "U+0313">>>>,
      <<"U+1FE5", <<"U+1FEC">>>>, <<"U+1FE6", <<"U+03A5", "U+0342">>>>, <<"U+1FE7", <<"U+03A5", "U+0308", "U+0342">>>>,
      <<"U+1FF2", <<"U+1FFA", "U+0399">>>>, <<"U+1FF3", <<"U+03A9", "U+0399">>>>,
      <<"U+1FF4", <<"U+038F", "U+0399">>>>, <<"U+1FF6", <<"U+03A9", "U+0342">>>>,
      <<"U+1FF7", <<"U+03A9", "U+0342", "U+0399">>>>, <<"U+1FFC", <<"U+03A9", "U+0399">>>>,
      <<"U+214E", <<"U+2132">>>>, <<"U+2170", <<"U+2160">>>>, <<"U+2171", <<"U+2161">>>>,
      <<"U+2172", <<"U+2162">>>>, <<"U+2173", <<"U+2163">>>>, <<"U+2174", <<"U+2164">>>>,
      <<"U+2175", <<"U+2165">>>>, <<"U+2176", <<"U+2166">>>>, <<"U+2177", <<"U+2167">>>>,
      <<"U+2178", <<"U+2168">>>>, <<"U+2179", <<"U+2169">>>>, <<"U+217A", <<"U+216A">>>>,
      <<"U+217B", <<"U+216B">>>>, <<"U+217C", <<"U+216C">>>>, <<"U+217D", <<"U+216D">>>>,
      <<"U+217E", <<"U+216E">>>>, <<"U+217F", <<"U+216F">>>>, <<"U+2184", <<"U+2183">>>>,
      <<"U+24D0", <<"U+24B6">>>>, <<"U+24D1", <<"U+24B7">>>>, <<"U+24D2", <<"U+24B8">>>>,
      <<"U+24D3", <<"U+24B9">>>>, <<"U+24D4", <<"U+24BA">>>>, <<"U+24D5", <<"U+24BB">>>>,
      <<"U+24D6", <<"U+24BC">>>>, <<"U+24D7", <<"U+24BD">>>>, <<"U+24D8", <<"U+24BE">>>>,
      <<"U+24D9", <<"U+24BF">>>>, <<"U+24DA", <<"U+24C0">>>>, <<"U+24DB", <<"U+24C1">>>>,
      <<"U+24DC", <<"U+24C2">>>>, <<"U+24DD", <<"U+24C3">>>>, <<"U+24DE", <<"U+24C4">>>>,
      <<"U+24DF", <<"U+24C5">>>>, <<"U+24E0", <<"U+24C6">>>>, <<"U+24E1", <<"U+24C7">>>>,
      <<"U+24E2", <<"U+24C8">>>>, <<"U+24E3", <<"U+24C9">>>>, <<"U+24E4", <<"U+24CA">>>>,
      <<"U+24E5", <<"U+24CB">>>>, <<"U+24E6", <<"U+24CC">>>>, <<"U+24E7", <<"U+24CD">>>>,
      <<"U+24E8", <<"U+24CE">>>>, <<"U+24E9", <<"U+24CF">>>>, <<"U+2C30", <<"U+2C00">>>>,
      <<"U+2C31", <<"U+2C01">>>>, <<"U+2C32", <<"U+2C02">>>>, <<"U+2C33", <<"U+2C03">>>>,
      <<"U+2C34", <<"U+2C04">>>>, <<"U+2C35", <<"U+2C05">>>>, <<"U+2C36", <<"U+2C06">>>>,
      <<"U+2C37", <<"U+2C07">>>>, <<"U+2C38", <<"U+2C08">>>>, <<"U+2C39", <<"U+2C09">>>>,
      <<"U+2C3A", <<"U+2C0A">>>>, <<"U+2C3B", <<"U+2C0B">>>>, <<"U+2C3C", <<"U+2C0C">>>>,
      <<"U+2C3D", <<"U+2C0D">>>>, <<"U+2C3E", <<"U+2C0E">>>>, <<"U+2C3F", <<"U+2C0F">>>>,
      <<"U+2C40", <<"U+2C10">>>>, <<"U+2C41", <<"U+2C11">>>>, <<"U+2C42", <<"U+2C12">>>>,
      <<"U+2C43", <<"U+2C13">>>>, <<"U+2C44", <<"U+2C14">>>>, <<"U+2C45", <<"U+2C15">>>>,
      <<"U+2C46", <<"U+2C16">>>>, <<"U+2C47", <<"U+2C17">>>>, <<"U+2C48", <<"U+2C18">>>>,
      <<"U+2C49", <<"U+2C19">>>>, <<"U+2C4A", <<"U+2C1A">>>>, <<"U+2C4B", <<"U+2C1B">>>>,
      <<"U+2C4C", <<"U+2C1C">>>>, <<"U+2C4D", <<"U+2C1D">>>>, <<"U+2C4E", <<"U+2C1E">>>>,
      <<"U+2C4F", <<"U+2C1F">>>>, <<"U+2C50", <<"U+2C20">>>>, <<"U+2C51", <<"U+2C21">>>>,
      <<"U+2C52", <<"U+2C22">>>>, <<"U+2C53", <<"U+2C23">>>>, <<"U+2C54", <<"U+2C24">>>>,
      <<"U+2C55", <<"U+2C25">>>>, <<"U+2C56", <<"U+2C26">>>>, <<"U+2C57", <<"U+2C27">>>>,
      <<"U+2C58", <<"U+2C28">>>>, <<"U+2C59", <<"U+2C29">>>>, <<"U+2C5A", <<"U+2C2A">>>>,
      <<"U+2C5B", <<"U+2C2B">>>>, <<"U+2C5C", <<"U+2C2C">>>>, <<"U+2C5D", <<"U+2C2D">>>>,
      <<"U+2C5E", <<"U+2C2E">>>>, <<"U+2C5F", <<"U+2C2F">>>>, <<"U+2C61", <<"U+2C60">>>>,
      <<"U+2C65", <<"U+023A">>>>, <<"U+2C66", <<"U+023E">>>>, <<"U+2C68", <<"U+2C67">>>>,
      <<"U+2C6A", <<"U+2C69">>>>, <<"U+2C6C", <<"U+2C6B">>>>, <<"U+2C73", <<"U+2C72">>>>,
      <<"U+2C76", <<"U+2C75">>>>, <<"U+2C81", <<"U+2C80">>>>, <<"U+2C83", <<"U+2C82">>>>,
      <<"U+2C85", <<"U+2C84">>>>, <<"U+2C87", <<"U+2C86">>>>, <<"U+2C89", <<"U+2C88">>>>,
      <<"U+2C8B", <<"U+2C8A">>>>, <<"U+2C8D", <<"U+2C8C">>>>, <<"U+2C8F", <<"U+2C8E">>>>,
      <<"U+2C91", <<"U+2C90">>>>, <<"U+2C93", <<"U+2C92">>>>, <<"U+2C95", <<"U+2C94">>>>,
      <<"U+2C97", <<"U+2C96">>>>, <<"U+2C99", <<"U+2C98">>>>, <<"U+2C9B", <<"U+2C9A">>>>,
      <<"U+2C9D", <<"U+2C9C">>>>, <<"U+2C9F", <<"U+2C9E">>>>, <<"U+2CA1", <<"U+2CA0">>>>,
      <<"U+2CA3", <<"U+2CA2">>>>, <<"U+2CA5", <<"U+2CA4">>>>, <<"U+2CA7", <<"U+2CA6">>>>,
      <<"U+2CA9", <<"U+2CA8">>>>, <<"U+2CAB", <<"U+2CAA">>>>, <<"U+2CAD", <<"U+2CAC">>>>,
      <<"U+2CAF", <<"U+2CAE">>>>, <<"U+2CB1", <<"U+2CB0">>>>, <<"U+2CB3", <<"U+2CB2">>>>,
      <<"U+2CB5", <<"U+2CB4">>>>, <<"U+2CB7", <<"U+2CB6">>>>, <<"U+2CB9", <<"U+2CB8">>>>,
      <<"U+2CBB", <<"U+2CBA">>>>, <<"U+2CBD", <<"U+2CBC">>>>, <<"U+2CBF", <<"U+2CBE">>>>,
      <<"U+2CC1", <<"U+2CC0">>>>, <<"U+2CC3", <<"U+2CC2">>>>, <<"U+2CC5", <<"U+2CC4">>>>,
      <<"U+2CC7", <<"U+2CC6">>>>, <<"U+2CC9", <<"U+2CC8">>>>, <<"U+2CCB", <<"U+2CCA">>>>,
      <<"U+2CCD", <<"U+2CCC">>>>, <<"U+2CCF", <<"U+2CCE">>>>, <<"U+2CD1", <<"U+2CD0">>>>,
      <<"U+2CD3", <<"U+2CD2">>>>, <<"U+2CD5", <<"U+2CD4">>>>, <<"U+2CD7", <<"U+2CD6">>>>,
      <<"U+2CD9", <<"U+2CD8">>>>, <<"U+2CDB", <<"U+2CDA">>>>, <<"U+2CDD", <<"U+2CDC">>>>,
      <<"U+2CDF", <<"U+2CDE">>>>, <<"U+2CE1", <<"U+2CE0">>>>, <<"U+2CE3", <<"U+2CE2">>>>,
      <<"U+2CEC", <<"U+2CEB">>>>, <<"U+2CEE", <<"U+2CED">>>>, <<"U+2CF3", <<"U+2CF2">>>>,
      <<"U+2D00", <<"U+10A0">>>>, <<"U+2D01", <<"U+10A1">>>>, <<"U+2D02", <<"U+10A2">>>>,
      <<"U+2D03", <<"U+10A3">>>>, <<"U+2D04", <<"U+10A4">>>>, <<"U+2D05", <<"U+10A5">>>>,
      <<"U+2D06", <<"U+10A6">>>>, <<"U+2D07", <<"U+10A7">>>>, <<"U+2D08", <<"U+10A8">>>>,
      <<"U+2D09", <<"U+10A9">>>>, <<"U+2D0A", <<"U+10AA">>>>, <<"U+2D0B", <<"U+10AB">>>>,
      <<"U+2D0C", <<"U+10AC">>>>, <<"U+2D0D", <<"U+10AD">>>>, <<"U+2D0E", <<"U+10AE">>>>,
      <<"U+2D0F", <<"U+10AF">>>>, <<"U+2D10", <<"U+10B0">>>>, <<"U+2D11", <<"U+10B1">>>>,
      <<"U+2D12", <<"U+10B2">>>>, <<"U+2D13", <<"U+10B3">>>>, <<"U+2D14", <<"U+10B4">>>>,
      <<"U+2D15", <<"U+10B5">>>>, <<"U+2D16", <<"U+10B6">>>>, <<"U+2D17", <<"U+10B7">>>>,
      <<"U+2D18", <<"U+10B8">>>>, <<"U+2D19", <<"U+10B9">>>>, <<"U+2D1A", <<"U+10BA">>>>,
      <<"U+2D1B", <<"U+10BB">>>>, <<"U+2D1C", <<"U+10BC">>>>, <<"U+2D1D", <<"U+10BD">>>>,
      <<"U+2D1E", <<"U+10BE">>>>, <<"U+2D1F", <<"U+10BF">>>>, <<"U+2D20", <<"U+10C0">>>>,
      <<"U+2D21", <<"U+10C1">>>>, <<"U+2D22", <<"U+10C2">>>>, <<"U+2D23", <<"U+10C3">>>>,
      <<"U+2D24", <<"U+10C4">>>>, <<"U+2D25", <<"U+10C5">>>>, <<"U+2D27", <<"U+10C7">>>>,
      <<"U+2D2D", <<"U+10CD">>>>, <<"U+A641", <<"U+A640">>>>, <<"U+A643", <<"U+A642">>>>,
      <<"U+A645", <<"U+A644">>>>, <<"U+A647", <<"U+A646">>>>, <<"U+A649", <<"U+A648">>>>,
      <<"U+A64B", <<"U+A64A">>>>, <<"U+A64D", <<"U+A64C">>>>, <<"U+A64F", <<"U+A64E">>>>,
      <<"U+A651", <<"U+A650">>>>, <<"U+A653", <<"U+A652">>>>, <<"U+A655", <<"U+A654">>>>,
      <<"U+A657", <<"U+A656">>>>, <<"U+A659", <<"U+A658">>>>, <<"U+A65B", <<"U+A65A">>>>,
      <<"U+A65D", <<"U+A65C">>>>, <<"U+A65F", <<"U+A65E">>>>, <<"U+A661", <<"U+A660">>>>,
      <<"U+A663", <<"U+A662">>>>, <<"U+A665", <<"U+A664">>>>, <<"U+A667", <<"U+A666">>>>,
      <<"U+A669", <<"U+A668">>>>, <<"U+A66B", <<"U+A66A">>>>, <<"U+A66D", <<"U+A66C">>>>,
      <<"U+A681", <<"U+A680">>>>, <<"U+A683", <<"U+A682">>>>, <<"U+A685", <<"U+A684">>>>,
      <<"U+A687", <<"U+A686">>>>, <<"U+A689", <<"U+A688">>>>, <<"U+A68B", <<"U+A68A">>>>,
      <<"U+A68D", <<"U+A68C">>>>, <<"U+A68F", <<"U+A68E">>>>, <<"U+A691", <<"U+A690">>>>,
      <<"U+A693", <<"U+A692">>>>, <<"U+A695", <<"U+A694">>>>, <<"U+A697", <<"U+A696">>>>,
      <<"U+A699", <<"U+A698">>>>, <<"U+A69B", <<"U+A69A">>>>, <<"U+A723", <<"U+A722">>>>,
      <<"U+A725", <<"U+A724">>>>, <<"U+A727", <<"U+A726">>>>, <<"U+A729", <<"U+A728">>>>,
      <<"U+A72B", <<"U+A72A">>>>, <<"U+A72D", <<"U+A72C">>>>, <<"U+A72F", <<"U+A72E">>>>,
      <<"U+A733", <<"U+A732">>>>, <<"U+A735", <<"U+A734">>>>, <<"U+A737", <<"U+A736">>>>,
      <<"U+A739", <<"U+A738">>>>, <<"U+A73B", <<"U+A73A">>>>, <<"U+A73D", <<"U+A73C">>>>,
      <<"U+A73F", <<"U+A73E">>>>, <<"U+A741", <<"U+A740">>>>, <<"U+A743", <<"U+A742">>>>,
      <<"U+A745", <<"U+A744">>>>, <<"U+A747", <<"U+A746">>>>, <<"U+A749", <<"U+A748">>>>,
      <<"U+A74B", <<"U+A74A">>>>, <<"U+A74D", <<"U+A74C">>>>, <<"U+A74F", <<"U+A74E">>>>,
      <<"U+A751", <<"U+A750">>>>, <<"U+A753", <<"U+A752">>>>, <<"U+A755", <<"U+A754">>>>,
      <<"U+A757", <<"U+A756">>>>, <<"U+A759", <<"U+A758">>>>, <<"U+A75B", <<"U+A75A">>>>,
      <<"U+A75D", <<"U+A75C">>>>, <<"U+A75F", <<"U+A75E">>>>, <<"U+A761", <<"U+A760">>>>,
      <<"U+A763", <<"U+A762">>>>, <<"U+A765", <<"U+A764">>>>, <<"U+A767", <<"U+A766">>>>,
      <<"U+A769", <<"U+A768">>>>, <<"U+A76B", <<"U+A76A">>>>, <<"U+A76D", <<"U+A76C">>>>,
      <<"U+A76F", <<"U+A76E">>>>, <<"U+A77A", <<"U+A779">>>>, <<"U+A77C", <<"U+A77B">>>>,
      <<"U+A77F", <<"U+A77E">>>>, <<"U+A781", <<"U+A780">>>>, <<"U+A783", <<"U+A782">>>>,
      <<"U+A785", <<"U+A784">>>>, <<"U+A787", <<"U+A786">>>>, <<"U+A78C", <<"U+A78B">>>>,
      <<"U+A791", <<"U+A790">>>>, <<"U+A793", <<"U+A792">>>>, <<"U+A794", <<"U+A7C4">>>>,
      <<"U+A797", <<"U+A796">>>>, <<"U+A799", <<"U+A798">>>>, <<"U+A79B", <<"U+A79A">>>>,
      <<"U+A79D", <<"U+A79C">>>>, <<"U+A79F", <<"U+A79E">>>>, <<"U+A7A1", <<"U+A7A0">>>>,
      <<"U+A7A3", <<"U+A7A2">>>>, <<"U+A7A5", <<"U+A7A4">>>>, <<"U+A7A7", <<"U+A7A6">>>>,
      <<"U+A7A9", <<"U+A7A8">>>>, <<"U+A7B5", <<"U+A7B4">>>>, <<"U+A7B7", <<"U+A7B6">>>>,
      <<"U+A7B9", <<"U+A7B8">>>>, <<"U+A7BB", <<"U+A7BA">>>>, <<"U+A7BD", <<"U+A7BC">>>>,
      <<"U+A7BF", <<"U+A7BE">>>>, <<"U+A7C1", <<"U+A7C0">>>>, <<"U+A7C3", <<"U+A7C2">>>>,
      <<"U+A7C8", <<"U+A7C7">>>>, <<"U+A7CA", <<"U+A7C9">>>>, <<"U+A7D1", <<"U+A7D0">>>>,
      <<"U+A7D7", <<"U+A7D6">>>>, <<"U+A7D9", <<"U+A7D8">>>>, <<"U+A7F6", <<"U+A7F5">>>>,
      <<"U+AB53", <<"U+A7B3">>>>, <<"U+AB70", <<"U+13A0">>>>, <<"U+AB71", <<"U+13A1">>>>,
      <<"U+AB72", <<"U+13A2">>>>, <<"U+AB73", <<"U+13A3">>>>, <<"U+AB74", <<"U+13A4">>>>,
      <<"U+AB75", <<"U+13A5">>>>, <<"U+AB76", <<"U+13A6">>>>, <<"U+AB77", <<"U+13A7">>>>,
      <<"U+AB78", <<"U+13A8">>>>, <<"U+AB79", <<"U+13A9">>>>, <<"U+AB7A", <<"U+13AA">>>>,
      <<"U+AB7B", <<"U+13AB">>>>, <<"U+AB7C", <<"U+13AC">>>>, <<"U+AB7D", <<"U+13AD">>>>,
      <<"U+AB7E", <<"U+13AE">>>>, <<"U+AB7F", <<"U+13AF">>>>, <<"U+AB80", <<"U+13B0">>>>,
      <<"U+AB81", <<"U+13B1">>>>, <<"U+AB82", <<"U+13B2">>>>, <<"U+AB83", <<"U+13B3">>>>,
      <<"U+AB84", <<"U+13B4">>>>, <<"U+AB85", <<"U+13B5">>>>, <<"U+AB86", <<"U+13B6">>>>,
      <<"U+AB87", <<"U+13B7">>>>, <<"U+AB88", <<"U+13B8">>>>, <<"U+AB89", <<"U+13B9">>>>,
      <<"U+AB8A", <<"U+13BA">>>>, <<"U+AB8B", <<"U+13BB">>>>, <<"U+AB8C", <<"U+13BC">>>>,
      <<"U+AB8D", <<"U+13BD">>>>, <<"U+AB8E", <<"U+13BE">>>>, <<"U+AB8F", <<"U+13BF">>>>,
      <<"U+AB90", <<"U+13C0">>>>, <<"U+AB91", <<"U+13C1">>>>, <<"U+AB92", <<"U+13C2">>>>,
      <<"U+AB93", <<"U+13C3">>>>, <<"U+AB94", <<"U+13C4">>>>, <<"U+AB95", <<"U+13C5">>>>,
      <<"U+AB96", <<"U+13C6">>>>, <<"U+AB97", <<"U+13C7">>>>, <<"U+AB98", <<"U+13C8">>>>,
      <<"U+AB99", <<"U+13C9">>>>, <<"U+AB9A", <<"U+13CA">>>>, <<"U+AB9B", <<"U+13CB">>>>,
      <<"U+AB9C", <<"U+13CC">>>>, <<"U+AB9D", <<"U+13CD">>>>, <<"U+AB9E", <<"U+13CE">>>>,
      <<"U+AB9F", <<"U+13CF">>>>, <<"U+ABA0", <<"U+13D0">>>>, <<"U+ABA1", <<"U+13D1">>>>,
      <<"U+ABA2", <<"U+13D2">>>>, <<"U+ABA3", <<"U+13D3">>>>, <<"U+ABA4", <<"U+13D4">>>>,
      <<"U+ABA5", <<"U+13D5">>>>, <<"U+ABA6", <<"U+13D6">>>>, <<"U+ABA7", <<"U+13D7">>>>,
      <<"U+ABA8", <<"U+13D8">>>>, <<"U+ABA9", <<"U+13D9">>>>, <<"U+ABAA", <<"U+13DA">>>>,
      <<"U+ABAB", <<"U+13DB">>>>, <<"U+ABAC", <<"U+13DC">>>>, <<"U+ABAD", <<"U+13DD">>>>,
      <<"U+ABAE", <<"U+13DE">>>>, <<"U+ABAF", <<"U+13DF">>>>, <<"U+ABB0", <<"U+13E0">>>>,
      <<"U+ABB1", <<"U+13E1">>>>, <<"U+ABB2", <<"U+13E2">>>>, <<"U+ABB3", <<"U+13E3">>>>,
      <<"U+ABB4", <<"U+13E4">>>>, <<"U+ABB5", <<"U+13E5">>>>, <<"U+ABB6", <<"U+13E6">>>>,
      <<"U+ABB7", <<"U+13E7">>>>, <<"U+ABB8", <<"U+13E8">>>>, <<"U+ABB9", <<"U+13E9">>>>,
      <<"U+ABBA", <<"U+13EA">>>>, <<"U+ABBB", <<"U+13EB">>>>, <<"U+ABBC", <<"U+13EC">>>>,
      <<"U+ABBD", <<"U+13ED">>>>, <<"U+ABBE", <<"U+13EE">>>>, <<"U+ABBF", <<"U+13EF">>>>,
      <<"U+FB00", <<"F", "F">>>>, <<"U+FB01", <<"F", "I">>>>, <<"U+FB02", <<"F", "L">>>>,
      <<"U+FB03", <<"F", "F", "I">>>>, <<"U+FB04", <<"F", "F", "L">>>>, <<"U+FB05", <<"S", "T">>>>,
      <<"U+FB06", <<"S", "T">>>>, <<"U+FB13", <<"U+0544", "U+0546">>>>, <<"U+FB14", <<"U+0544", "U+0535">>>>,
      <<"U+FB15", <<"U+0544", "U+053B">>>>, <<"U+FB16", <<"U+054E", "U+0546">>>>,
      <<"U+FB17", <<"U+0544", "U+053D">>>>, <<"U+FF41", <<"U+FF21">>>>, <<"U+FF42", <<"U+FF22">>>>,
      <<"U+FF43", <<"U+FF23">>>>, <<"U+FF44", <<"U+FF24">>>>, <<"U+FF45", <<"U+FF25">>>>,
      <<"U+FF46", <<"U+FF26">>>>, <<"U+FF47", <<"U+FF27">>>>, <<"U+FF48", <<"U+FF28">>>>,
      <<"U+FF49", <<"U+FF29">>>>, <<"U+FF4A", <<"U+FF2A">>>>, <<"U+FF4B", <<"U+FF2B">>>>,
      <<"U+FF4C", <<"U+FF2C">>>>, <<"U+FF4D", <<"U+FF2D">>>>, <<"U+FF4E", <<"U+FF2E">>>>,
      <<"U+FF4F", <<"U+FF2F">>>>, <<"U+FF50", <<"U+FF30">>>>, <<"U+FF51", <<"U+FF31">>>>,
      <<"U+FF52", <<"U+FF32">>>>, <<"U+FF53", <<"U+FF33">>>>, <<"U+FF54", <<"U+FF34">>>>,
      <<"U+FF55", <<"U+FF35">>>>, <<"U+FF56", <<"U+FF36">>>>, <<"U+FF57", <<"U+FF37">>>>,
      <<"U+FF58", <<"U+FF38">>>>, <<"U+FF59", <<"U+FF39">>>>, <<"U+FF5A", <<"U+FF3A">>>>,
      <<"U+10428", <<"U+10400">>>>, <<"U+10429", <<"U+10401">>>>, <<"U+1042A", <<"U+10402">>>>,
      <<"U+1042B", <<"U+10403">>>>, <<"U+1042C", <<"U+10404">>>>, <<"U+1042D", <<"U+10405">>>>,
      <<"U+1042E", <<"U+10406">>>>, <<"U+1042F", <<"U+10407">>>>, <<"U+10430", <<"U+10408">>>>,
      <<"U+10431", <<"U+10409">>>>, <<"U+10432", <<"U+1040A">>>>, <<"U+10433", <<"U+1040B">>>>,
      <<"U+10434", <<"U+1040C">>>>, <<"U+10435", <<"U+1040D">>>>, <<"U+10436", <<"U+1040E">>>>,
      <<"U+10437", <<"U+1040F">>>>, <<"U+10438", <<"U+10410">>>>, <<"U+10439", <<"U+10411">>>>,
      <<"U+1043A", <<"U+10412">>>>, <<"U+1043B", <<"U+10413">>>>, <<"U+1043C", <<"U+10414">>>>,
      <<"U+1043D", <<"U+10415">>>>, <<"U+1043E", <<"U+10416">>>>, <<"U+1043F", <<"U+10417">>>>,
      <<"U+10440", <<"U+10418">>>>, <<"U+10441", <<"U+10419">>>>, <<"U+10442", <<"U+1041A">>>>,
      <<"U+10443", <<"U+1041B">>>>, <<"U+10444", <<"U+1041C">>>>, <<"U+10445", <<"U+1041D">>>>,
      <<"U+10446", <<"U+1041E">>>>, <<"U+10447", <<"U+1041F">>>>, <<"U+10448", <<"U+10420">>>>,
      <<"U+10449", <<"U+10421">>>>, <<"U+1044A", <<"U+10422">>>>, <<"U+1044B", <<"U+10423">>>>,
      <<"U+1044C", <<"U+10424">>>>, <<"U+1044D", <<"U+10425">>>>, <<"U+1044E", <<"U+10426">>>>,
      <<"U+1044F", <<"U+10427">>>>, <<"U+104D8", <<"U+104B0">>>>, <<"U+104D9", <<"U+104B1">>>>,
      <<"U+104DA", <<"U+104B2">>>>, <<"U+104DB", <<"U+104B3">>>>, <<"U+104DC", <<"U+104B4">>>>,
      <<"U+104DD", <<"U+104B5">>>>, <<"U+104DE", <<"U+104B6">>>>, <<"U+104DF", <<"U+104B7">>>>,
      <<"U+104E0", <<"U+104B8">>>>, <<"U+104E1", <<"U+104B9">>>>, <<"U+104E2", <<"U+104BA">>>>,
      <<"U+104E3", <<"U+104BB">>>>, <<"U+104E4", <<"U+104BC">>>>, <<"U+104E5", <<"U+104BD">>>>,
      <<"U+104E6", <<"U+104BE">>>>, <<"U+104E7", <<"U+104BF">>>>, <<"U+104E8", <<"U+104C0">>>>,
      <<"U+104E9", <<"U+104C1">>>>, <<"U+104EA", <<"U+104C2">>>>, <<"U+104EB", <<"U+104C3">>>>,
      <<"U+104EC", <<"U+104C4">>>>, <<"U+104ED", <<"U+104C5">>>>, <<"U+104EE", <<"U+104C6">>>>,
      <<"U+104EF", <<"U+104C7">>>>, <<"U+104F0", <<"U+104C8">>>>, <<"U+104F1", <<"U+104C9">>>>,
      <<"U+104F2", <<"U+104CA">>>>, <<"U+104F3", <<"U+104CB">>>>, <<"U+104F4", <<"U+104CC">>>>,
      <<"U+104F5", <<"U+104CD">>>>, <<"U+104F6", <<"U+104CE">>>>, <<"U+104F7", <<"U+104CF">>>>,
      <<"U+104F8", <<"U+104D0">>>>, <<"U+104F9", <<"U+104D1">>>>, <<"U+104FA", <<"U+104D2">>>>,
      <<"U+104FB", <<"U+104D3">>>>, <<"U+10597", <<"U+10570">>>>, <<"U+10598", <<"U+10571">>>>,
      <<"U+10599", <<"U+10572">>>>, <<"U+1059A", <<"U+10573">>>>, <<"U+1059B", <<"U+10574">>>>,
      <<"U+1059C", <<"U+10575">>>>, <<"U+1059D", <<"U+10576">>>>, <<"U+1059E", <<"U+10577">>>>,
      <<"U+1059F", <<"U+10578">>>>, <<"U+105A0", <<"U+10579">>>>, <<"U+105A1", <<"U+1057A">>>>,
      <<"U+105A3", <<"U+1057C">>>>, <<"U+105A4", <<"U+1057D">>>>, <<"U+105A5", <<"U+1057E">>>>,
      <<"U+105A6", <<"U+1057F">>>>, <<"U+105A7", <<"U+10580">>>>, <<"U+105A8", <<"U+10581">>>>,
      <<"U+105A9", <<"U+10582">>>>, <<"U+105AA", <<"U+10583">>>>, <<"U+105AB", <<"U+10584">>>>,
      <<"U+105AC", <<"U+10585">>>>, <<"U+105AD", <<"U+10586">>>>, <<"U+105AE", <<"U+10587">>>>,
      <<"U+105AF", <<"U+10588">>>>, <<"U+105B0", <<"U+10589">>>>, <<"U+105B1", <<"U+1058A">>>>,
      <<"U+105B3", <<"U+1058C">>>>, <<"U+105B4", <<"U+1058D">>>>, <<"U+105B5", <<"U+1058E">>>>,
      <<"U+105B6", <<"U+1058F">>>>, <<"U+105B7", <<"U+10590">>>>, <<"U+105B8", <<"U+10591">>>>,
      <<"U+105B9", <<"U+10592">>>>, <<"U+105BB", <<"U+10594">>>>, <<"U+105BC", <<"U+10595">>>>,
      <<"U+10CC0", <<"U+10C80">>>>, <<"U+10CC1", <<"U+10C81">>>>, <<"U+10CC2", <<"U+10C82">>>>,
      <<"U+10CC3", <<"U+10C83">>>>, <<"U+10CC4", <<"U+10C84">>>>, <<"U+10CC5", <<"U+10C85">>>>,
      <<"U+10CC6", <<"U+10C86">>>>, <<"U+10CC7", <<"U+10C87">>>>, <<"U+10CC8", <<"U+10C88">>>>,
      <<"U+10CC9", <<"U+10C89">>>>, <<"U+10CCA", <<"U+10C8A">>>>, <<"U+10CCB", <<"U+10C8B">>>>,
      <<"U+10CCC", <<"U+10C8C">>>>, <<"U+10CCD", <<"U+10C8D">>>>, <<"U+10CCE", <<"U+10C8E">>>>,
      <<"U+10CCF", <<"U+10C8F">>>>, <<"U+10CD0", <<"U+10C90">>>>, <<"U+10CD1", <<"U+10C91">>>>,
      <<"U+10CD2", <<"U+10C92">>>>, <<"U+10CD3", <<"U+10C93">>>>, <<"U+10CD4", <<"U+10C94">>>>,
      <<"U+10CD5", <<"U+10C95">>>>, <<"U+10CD6", <<"U+10C96">>>>, <<"U+10CD7", <<"U+10C97">>>>,
      <<"U+10CD8", <<"U+10C98">>>>, <<"U+10CD9", <<"U+10C99">>>>, <<"U+10CDA", <<"U+10C9A">>>>,
      <<"U+10CDB", <<"U+10C9B">>>>, <<"U+10CDC", <<"U+10C9C">>>>, <<"U+10CDD", <<"U+10C9D">>>>,
      <<"U+10CDE", <<"U+10C9E">>>>, <<"U+10CDF", <<"U+10C9F">>>>, <<"U+10CE0", <<"U+10CA0">>>>,
      <<"U+10CE1", <<"U+10CA1">>>>, <<"U+10CE2", <<"U+10CA2">>>>, <<"U+10CE3", <<"U+10CA3">>>>,
      <<"U+10CE4", <<"U+10CA4">>>>, <<"U+10CE5", <<"U+10CA5">>>>, <<"U+10CE6", <<"U+10CA6">>>>,
      <<"U+10CE7", <<"U+10CA7">>>>, <<"U+10CE8", <<"U+10CA8">>>>, <<"U+10CE9", <<"U+10CA9">>>>,
      <<"U+10CEA", <<"U+10CAA">>>>, <<"U+10CEB", <<"U+10CAB">>>>, <<"U+10CEC", <<"U+10CAC">>>>,
      <<"U+10CED", <<"U+10CAD">>>>, <<"U+10CEE", <<"U+10CAE">>>>, <<"U+10CEF", <<"U+10CAF">>>>,
      <<"U+10CF0", <<"U+10CB0">>>>, <<"U+10CF1", <<"U+10CB1">>>>, <<"U+10CF2", <<"U+10CB2">>>>,
      <<"U+118C0", <<"U+118A0">>>>, <<"U+118C1", <<"U+118A1">>>>, <<"U+118C2", <<"U+118A2">>>>,
      <<"U+118C3", <<"U+118A3">>>>, <<"U+118C4", <<"U+118A4">>>>, <<"U+118C5", <<"U+118A5">>>>,
      <<"U+118C6", <<"U+118A6">>>>, <<"U+118C7", <<"U+118A7">>>>, <<"U+118C8", <<"U+118A8">>>>,
      <<"U+118C9", <<"U+118A9">>>>, <<"U+118CA", <<"U+118AA">>>>, <<"U+118CB", <<"U+118AB">>>>,
      <<"U+118CC", <<"U+118AC">>>>, <<"U+118CD", <<"U+118AD">>>>, <<"U+118CE", <<"U+118AE">>>>,
      <<"U+118CF", <<"U+118AF">>>>, <<"U+118D0", <<"U+118B0">>>>, <<"U+118D1", <<"U+118B1">>>>,
      <<"U+118D2", <<"U+118B2">>>>, <<"U+118D3", <<"U+118B3">>>>, <<"U+118D4", <<"U+118B4">>>>,
      <<"U+118D5", <<"U+118B5">>>>, <<"U+118D6", <<"U+118B6">>>>, <<"U+118D7", <<"U+118B7">>>>,
      <<"U+118D8", <<"U+118B8">>>>, <<"U+118D9", <<"U+118B9">>>>, <<"U+118DA", <<"U+118BA">>>>,
      <<"U+118DB", <<"U+118BB">>>>, <<"U+118DC", <<"U+118BC">>>>, <<"U+118DD", <<"U+118BD">>>>,
      <<"U+118DE", <<"U+118BE">>>>, <<"U+118DF", <<"U+118BF">>>>, <<"U+16E60", <<"U+16E40">>>>,
      <<"U+16E61", <<"U+16E41">>>>, <<"U+16E62", <<"U+16E42">>>>, <<"U+16E63", <<"U+16E43">>>>,
      <<"U+16E64", <<"U+16E44">>>>, <<"U+16E65", <<"U+16E45">>>>, <<"U+16E66", <<"U+16E46">>>>,
      <<"U+16E67", <<"U+16E47">>>>, <<"U+16E68", <<"U+16E48">>>>, <<"U+16E69", <<"U+16E49">>>>,
      <<"U+16E6A", <<"U+16E4A">>>>, <<"U+16E6B", <<"U+16E4B">>>>, <<"U+16E6C", <<"U+16E4C">>>>,
      <<"U+16E6D", <<"U+16E4D">>>>, <<"U+16E6E", <<"U+16E4E">>>>, <<"U+16E6F", <<"U+16E4F">>>>,
      <<"U+16E70", <<"U+16E50">>>>, <<"U+16E71", <<"U+16E51">>>>, <<"U+16E72", <<"U+16E52">>>>,
      <<"U+16E73", <<"U+16E53">>>>, <<"U+16E74", <<"U+16E54">>>>, <<"U+16E75", <<"U+16E55">>>>,
      <<"U+16E76", <<"U+16E56">>>>, <<"U+16E77", <<"U+16E57">>>>, <<"U+16E78", <<"U+16E58">>>>,
      <<"U+16E79", <<"U+16E59">>>>, <<"U+16E7A", <<"U+16E5A">>>>, <<"U+16E7B", <<"U+16E5B">>>>,
      <<"U+16E7C", <<"U+16E5C">>>>, <<"U+16E7D", <<"U+16E5D">>>>, <<"U+16E7E", <<"U+16E5E">>>>,
      <<"U+16E7F", <<"U+16E5F">>>>, <<"U+1E922", <<"U+1E900">>>>, <<"U+1E923", <<"U+1E901">>>>,
      <<"U+1E924", <<"U+1E902">>>>, <<"U+1E925", <<"U+1E903">>>>, <<"U+1E926", <<"U+1E904">>>>,
      <<"U+1E927", <<"U+1E905">>>>, <<"U+1E928", <<"U+1E906">>>>, <<"U+1E929", <<"U+1E907">>>>,
      <<"U+1E92A", <<"U+1E908">>>>, <<"U+1E92B", <<"U+1E909">>>>, <<"U+1E92C", <<"U+1E90A">>>>,
      <<"U+1E92D", <<"U+1E90B">>>>, <<"U+1E92E", <<"U+1E90C">>>>, <<"U+1E92F", <<"U+1E90D">>>>,
      <<"U+1E930", <<"U+1E90E">>>>, <<"U+1E931", <<"U+1E90F">>>>, <<"U+1E932", <<"U+1E910">>>>,
      <<"U+1E933", <<"U+1E911">>>>, <<"U+1E934", <<"U+1E912">>>>, <<"U+1E935", <<"U+1E913">>>>,
      <<"U+1E936", <<"U+1E914">>>>, <<"U+1E937", <<"U+1E915">>>>, <<"U+1E938", <<"U+1E916">>>>,
      <<"U+1E939", <<"U+1E917">>>>, <<"U+1E93A", <<"U+1E918">>>>, <<"U+1E93B", <<"U+1E919">>>>,
      <<"U+1E93C", <<"U+1E91A">>>>, <<"U+1E93D", <<"U+1E91B">>>>, <<"U+1E93E", <<"U+1E91C">>>>,
      <<"U+1E93F", <<"U+1E91D">>>>, <<"U+1E940", <<"U+1E91E">>>>, <<"U+1E941", <<"U+1E91F">>>>,
      <<"U+1E942", <<"U+1E920">>>>, <<"U+1E943", <<"U+1E921">>>>,
      <<"U+019B", <<"U+A7DC">>>>, <<"U+0264", <<"U+A7CB">>>>, <<"U+1C8A", <<"U+1C89">>>>,
      <<"U+A7CD", <<"U+A7CC">>>>, <<"U+A7CF", <<"U+A7CE">>>>, <<"U+A7D3", <<"U+A7D2">>>>,
      <<"U+A7D5", <<"U+A7D4">>>>, <<"U+A7DB", <<"U+A7DA">>>>, <<"U+10D70", <<"U+10D50">>>>,
      <<"U+10D71", <<"U+10D51">>>>, <<"U+10D72", <<"U+10D52">>>>, <<"U+10D73", <<"U+10D53">>>>,
      <<"U+10D74", <<"U+10D54">>>>, <<"U+10D75", <<"U+10D55">>>>, <<"U+10D76", <<"U+10D56">>>>,
      <<"U+10D77", <<"U+10D57">>>>, <<"U+10D78", <<"U+10D58">>>>, <<"U+10D79", <<"U+10D59">>>>,
      <<"U+10D7A", <<"U+10D5A">>>>, <<"U+10D7B", <<"U+10D5B">>>>, <<"U+10D7C", <<"U+10D5C">>>>,
      <<"U+10D7D", <<"U+10D5D">>>>, <<"U+10D7E", <<"U+10D5E">>>>, <<"U+10D7F", <<"U+10D5F">>>>,
      <<"U+10D80", <<"U+10D60">>>>, <<"U+10D81", <<"U+10D61">>>>, <<"U+10D82", <<"U+10D62">>>>,
      <<"U+10D83", <<"U+10D63">>>>, <<"U+10D84", <<"U+10D64">>>>, <<"U+10D85", <<"U+10D65">>>>,
      <<"U+16EBB", <<"U+16EA0">>>>, <<"U+16EBC", <<"U+16EA1">>>>, <<"U+16EBD", <<"U+16EA2">>>>,
      <<"U+16EBE", <<"U+16EA3">>>>, <<"U+16EBF", <<"U+16EA4">>>>, <<"U+16EC0", <<"U+16EA5">>>>,
      <<"U+16EC1", <<"U+16EA6">>>>, <<"U+16EC2", <<"U+16EA7">>>>, <<"U+16EC3", <<"U+16EA8">>>>,
      <<"U+16EC4", <<"U+16EA9">>>>, <<"U+16EC5", <<"U+16EAA">>>>, <<"U+16EC6", <<"U+16EAB">>>>,
      <<"U+16EC7", <<"U+16EAC">>>>, <<"U+16EC8", <<"U+16EAD">>>>, <<"U+16EC9", <<"U+16EAE">>>>,
      <<"U+16ECA", <<"U+16EAF">>>>, <<"U+16ECB", <<"U+16EB0">>>>, <<"U+16ECC", <<"U+16EB1">>>>,
      <<"U+16ECD", <<"U+16EB2">>>>, <<"U+16ECE", <<"U+16EB3">>>>, <<"U+16ECF", <<"U+16EB4">>>>,
      <<"U+16ED0", <<"U+16EB5">>>>, <<"U+16ED1", <<"U+16EB6">>>>, <<"U+16ED2", <<"U+16EB7">>>>,
      <<"U+16ED3", <<"U+16EB8">>>>
    }

\* the characters outside ASCII that change under toUpperCase
UnicodeLower == {m[1] : m \in UnicodeUpper}

\* what toUpperCase makes of one character: one or more characters
ToUpperChar(c) ==
    IF \E i \in 1..Len(LowerCase) : LowerCase[i] = c
    THEN <<UpperCase[CHOOSE i \in 1..Len(LowerCase) : LowerCase[i] = c]>>
    ELSE IF c \in UnicodeLower
    THEN (CHOOSE m \in UnicodeUpper : m[1] = c)[2]
    ELSE <<c>>

\* String.prototype.toUpperCase
RECURSIVE toUpperCase(_)
toUpperCase(s) ==
    IF Len(s) = 0 THEN <<>>
    ELSE ToUpperChar(s[1]) \o toUpperCase(Tail(s))

----------------------------------------------------------------------------
\* Constants of the source.

FULL_ACCESS_PERMISSION == "FULL_ACCESS"

\* clock-skew margin of isTokenExpired, in milliseconds
ClockSkewMs == 60000

\* the public routes without /login
PUBLIC_ROUTES_withoutLogin ==
    <<P_root, P_register, P_reservar, P_nosotros, P_servicios>>

PUBLIC_ROUTES ==
    <<P_root, P_login, P_register, P_reservar, P_nosotros, P_servicios>>

PUBLIC_PREFIXES == <<P_api_public, P_next, P_favicon>>

\* a route table that also declares a permission for /dashboard itself
ROUTE_PERMISSIONS_withDashboard ==
    << [route |-> P_dashboard,               permissions |-> <<"READ_DASHBOARD">>],
       [route |-> P_dashboard_clientes,      permissions |-> <<"READ_CLIENTS">>],
       [route |-> P_dashboard_profesionales, permissions |-> <<"READ_PROFESSIONALS">>],
       [route |-> P_dashboard_categorias,    permissions |-> <<"READ_CATEGORIES">>],
       [route |-> P_dashboard_servicios,     permissions |-> <<"READ_SERVICES">>],
       [route |-> P_dashboard_reservas,      permissions |-> <<"READ_BOOKING">>],
       [route |-> P_dashboard_configuracion, permissions |-> <<"MANAGE_SETTINGS">>] >>

\* Object.entries(ROUTE_PERMISSIONS), in insertion order
ROUTE_PERMISSIONS ==
    << [route |-> P_dashboard_clientes,      permissions |-> <<"READ_CLIENTS">>],
       [route |-> P_dashboard_profesionales, permissions |-> <<"READ_PROFESSIONALS">>],
       [route |-> P_dashboard_categorias,    permissions |-> <<"READ_CATEGORIES">>],
       [route |-> P_dashboard_servicios,     permissions |-> <<"READ_SERVICES">>],
       [route |-> P_dashboard_reservas,      permissions |-> <<"READ_BOOKING">>],
       [route |-> P_dashboard_configuracion, permissions |-> <<"MANAGE_SETTINGS">>] >>

----------------------------------------------------------------------------
\* Token payloads and tokens.

\* the value JSON.parse yields for the literal null, and the decoder's
\* failure sentinel
Null == [null |-> TRUE]

\* A decoded payload object.  isAdmin is "absent", the boolean "true" or
\* "false", or "string" for the non-boolean value "true"; a list field that
\* is missing has its has* flag FALSE.  exp is in seconds since the epoch.
JwtPayload(isAdminField, hasPermissions, permissions, hasRoles, roles, hasExp, exp) ==
    [isAdmin        |-> isAdminField,
     hasPermissions |-> hasPermissions,
     permissions    |-> permissions,
     hasRoles       |-> hasRoles,
     roles          |-> roles,
     hasExp         |-> hasExp,
     exp            |-> exp]

\* The cookie store has no auth_token entry.
NoCookie == [kind |-> "none"]

\* A token string: the number of '.'-separated segments, how the middle
\* segment is encoded, and the JSON value it yields.  enc is "ok" for strict
\* base64url of UTF-8 JSON text; "badbase64" for a segment atob or
\* decodeURIComponent rejects (a character outside the alphabet, an
\* impossible length, bytes that are not UTF-8), json being then what the
\* text parses to once Buffer.from(_, 'base64url') has skipped the foreign
\* characters and replaced the invalid bytes, Null if it does not parse;
\* "badjson" for valid base64url of text that is not JSON.
Jwt(parts, enc, json) == [kind |-> "jwt", parts |-> parts, enc |-> enc, json |-> json]

\* The empty string as cookie value.
EmptyToken == [kind |-> "empty"]

\* truthiness of `token` in `!token`
Truthy(token) == token.kind = "jwt"

\* decodeJwt: split on '.', base64url-decode and JSON.parse the middle
\* segment; null on any failure.
decodeJwt(token) ==
    IF token.kind # "jwt" THEN Null
    ELSE IF token.parts # 3 THEN Null
    ELSE IF token.enc # "ok" THEN Null
    ELSE token.json

\* `typeof token === 'string'`: the value is a text (a token, or a JSON
\* string that decodeJwt returned), not a decoded object
IsString(token) == "kind" \in DOMAIN token

\* `!payload` for a value JSON.parse returned: null, false, 0 and the empty
\* string are falsy, every object, list, other number and other string is
\* truthy
Falsy(payload) ==
    \/ payload = Null
    \/ /\ "jsonKind" \in DOMAIN payload
       /\ \/ payload.jsonKind \in {"zero", "false"}
          \/ payload.jsonKind = "string" /\ payload.kind = "empty"

\* isTokenExpired with the margin compared strictly
isTokenExpired_strict(token, nowMs) ==
    LET payload == IF IsString(token) THEN decodeJwt(token) ELSE token
    IN  IF Falsy(payload) \/ ~payload.hasExp \/ payload.exp = 0
        THEN TRUE
        ELSE nowMs > payload.exp * 1000 - ClockSkewMs

\* isTokenExpired at time `nowMs` (Date.now()): its argument is a decoded
\* payload, or a text, which it decodes first.
isTokenExpired(token, nowMs) ==
    LET payload == IF IsString(token) THEN decodeJwt(token) ELSE token
    IN  IF Falsy(payload) \/ ~payload.hasExp \/ payload.exp = 0
        THEN TRUE
        ELSE LET expirationTime == payload.exp * 1000
             IN  nowMs >= expirationTime - ClockSkewMs

\* `payload?.permissions || []`: the empty string is falsy too
getPermissionsFromToken(token) ==
    LET payload == decodeJwt(token)
    IN  IF payload # Null /\ payload.hasPermissions /\ ~(IsText(payload) /\ permissionsLength(payload) = 0)
        THEN payload.permissions ELSE <<>>

\* the three-way full-access test shared by isAdmin, isAdminPayload and
\* isAdminRole
isAdminPayload(payload) ==
    IF Falsy(payload) THEN FALSE
    ELSE IF payload.isAdmin = "true" THEN TRUE
    ELSE IF payload.hasPermissions /\ permissionsIncludes(payload, payload.permissions, FULL_ACCESS_PERMISSION) THEN TRUE
    ELSE IF payload.hasRoles
            /\ \E i \in 1..Len(payload.roles) :
                  StrIncludes(toUpperCase(payload.roles[i]), S_ADMIN) THEN TRUE
    ELSE FALSE

\* isAdmin matching the role marker without upper-casing the role name
isAdmin_caseSensitive(token) ==
    LET payload == decodeJwt(token)
    IN  IF Falsy(payload) THEN FALSE
        ELSE IF payload.isAdmin = "true" THEN TRUE
        ELSE IF payload.hasPermissions /\ permissionsIncludes(payload, payload.permissions, FULL_ACCESS_PERMISSION) THEN TRUE
        ELSE IF payload.hasRoles
                /\ \E i \in 1..Len(payload.roles) : StrIncludes(payload.roles[i], S_ADMIN) THEN TRUE
        ELSE FALSE

isAdmin(token) ==
    LET payload == decodeJwt(token)
    IN  IF Falsy(payload) THEN FALSE
        ELSE IF payload.isAdmin = "true" THEN TRUE
        ELSE IF payload.hasPermissions /\ permissionsIncludes(payload, payload.permissions, FULL_ACCESS_PERMISSION) THEN TRUE
        ELSE IF payload.hasRoles
                /\ \E i \in 1..Len(payload.roles) :
                      StrIncludes(toUpperCase(payload.roles[i]), S_ADMIN) THEN TRUE
        ELSE FALSE

\* hasPermission that allows when the payload carries no permission list
hasPermission_failOpen(token, permission) ==
    IF isAdmin(token) THEN TRUE
    ELSE LET payload == decodeJwt(token)
         IN  IF payload = Null \/ ~payload.hasPermissions THEN TRUE
             ELSE permissionsIncludes(payload, payload.permissions, permission)

hasPermission(token, permission) ==
    IF isAdmin(token) THEN TRUE
    ELSE LET permissions == getPermissionsFromToken(token)
         IN  permissionsIncludes(decodeJwt(token), permissions, permission)

\* hasAllPermissions written with some() instead of every()
hasAllPermissions_some(token, permissions) ==
    IF isAdmin(token) THEN TRUE
    ELSE \E i \in 1..Len(permissions) : hasPermission(token, permissions[i])

hasAllPermissions(token, permissions) ==
    IF isAdmin(token) THEN TRUE
    ELSE \A i \in 1..Len(permissions) : hasPermission(token, permissions[i])

\* hasAnyPermission without its own full-access short-circuit
hasAnyPermission_noOverride(token, permissions) ==
    \E i \in 1..Len(permissions) : hasPermission(token, permissions[i])

hasAnyPermission(token, permissions) ==
    IF isAdmin(token) THEN TRUE
    ELSE \E i \in 1..Len(permissions) : hasPermission(token, permissions[i])

\* AuthProvider: values derived from the jwtPayload state
ctxPermissions(payload) ==
    IF payload # Null /\ payload.hasPermissions THEN payload.permissions ELSE <<>>

ctxHasPermission(payload, permission) ==
    IF isAdminPayload(payload) THEN TRUE
    ELSE permissionsIncludes(payload, ctxPermissions(payload), permission)

ctxHasAnyPermission(payload, perms) ==
    IF isAdminPayload(payload) THEN TRUE
    ELSE \E i \in 1..Len(perms) : permissionsIncludes(payload, ctxPermissions(payload), perms[i])

ctxHasAllPermissions(payload, perms) ==
    IF isAdminPayload(payload) THEN TRUE
    ELSE \A i \in 1..Len(perms) : permissionsIncludes(payload, ctxPermissions(payload), perms[i])

\* usePermissions.isAuthenticated, for the token read from the cookie
hookIsAuthenticated(token, nowMs) ==
    LET payload == IF ~Truthy(token) THEN Null ELSE decodeJwt(token)
    IN  IF ~Truthy(token) \/ Falsy(payload) THEN FALSE
        ELSE ~isTokenExpired(payload, nowMs)

\* usePermissions: the predicates of the hook, for the token it read
hookIsAdmin(token) == IF ~Truthy(token) THEN FALSE ELSE isAdmin(token)

hookHasAnyPermission(token, perms) ==
    IF ~Truthy(token) THEN FALSE ELSE hasAnyPermission(token, perms)

\* the hook's hasAllPermissions without its token test
hookHasAllPermissions_noTokenTest(token, perms) == hasAllPermissions(token, perms)

hookHasAllPermissions(token, perms) ==
    IF ~Truthy(token) THEN FALSE ELSE hasAllPermissions(token, perms)

\* PermissionGate: what it renders
PermissionGate(token, permissions, requireAll) ==
    IF hookIsAdmin(token) THEN "children"
    ELSE LET hasAccess == IF requireAll THEN hookHasAllPermissions(token, permissions)
                          ELSE hookHasAnyPermission(token, permissions)
         IN  IF hasAccess THEN "children" ELSE "fallback"

\* ProtectedRoute: hasAccess, from the isAuthenticated the hook returned
protectedRouteHasAccess(isAuthenticated, token, permissions, requireAll) ==
    IF ~isAuthenticated THEN FALSE
    ELSE IF hookIsAdmin(token) THEN TRUE
    ELSE IF Len(permissions) = 0 THEN TRUE
    ELSE IF requireAll THEN hookHasAllPermissions(token, permissions)
    ELSE hookHasAnyPermission(token, permissions)

\* ProtectedRoute: what it renders, and whether its effect, when it runs,
\* calls router.replace(redirectTo)
ProtectedRoute(isAuthenticated, token, permissions, requireAll) ==
    LET hasAccess == protectedRouteHasAccess(isAuthenticated, token, permissions, requireAll)
    IN  [rendered |-> IF ~isAuthenticated THEN "loading"
                      ELSE IF ~hasAccess THEN "denied"
                      ELSE "children",
         replace |-> ~hasAccess /\ isAuthenticated]

\* the sidebar's menu with the Clientes item open to everyone
menuItems_clientesOpen ==
    << [href |-> P_dashboard,               has |-> FALSE, permissions |-> <<>>, requireAll |-> FALSE],
       [href |-> P_dashboard_profesionales, has |-> TRUE, permissions |-> <<"READ_PROFESSIONALS">>, requireAll |-> FALSE],
       [href |-> P_dashboard_categorias,    has |-> TRUE, permissions |-> <<"READ_CATEGORIES">>, requireAll |-> FALSE],
       [href |-> P_dashboard_clientes,      has |-> FALSE, permissions |-> <<>>, requireAll |-> FALSE],
       [href |-> P_dashboard_servicios,     has |-> TRUE, permissions |-> <<"READ_SERVICES">>, requireAll |-> FALSE],
       [href |-> P_dashboard_reservas,      has |-> TRUE, permissions |-> <<"READ_BOOKING">>, requireAll |-> FALSE],
       [href |-> P_dashboard_configuracion, has |-> TRUE, permissions |-> <<"MANAGE_SETTINGS">>, requireAll |-> FALSE] >>

\* the sidebar's menuItems: href, the permissions field if the item has one,
\* and requireAll (undefined is falsy)
menuItems ==
    << [href |-> P_dashboard,               has |-> FALSE, permissions |-> <<>>, requireAll |-> FALSE],
       [href |-> P_dashboard_profesionales, has |-> TRUE, permissions |-> <<"READ_PROFESSIONALS">>, requireAll |-> FALSE],
       [href |-> P_dashboard_categorias,    has |-> TRUE, permissions |-> <<"READ_CATEGORIES">>, requireAll |-> FALSE],
       [href |-> P_dashboard_clientes,      has |-> TRUE, permissions |-> <<"READ_CLIENTS">>, requireAll |-> FALSE],
       [href |-> P_dashboard_servicios,     has |-> TRUE, permissions |-> <<"READ_SERVICES">>, requireAll |-> FALSE],
       [href |-> P_dashboard_reservas,      has |-> TRUE, permissions |-> <<"READ_BOOKING">>, requireAll |-> FALSE],
       [href |-> P_dashboard_configuracion, has |-> TRUE, permissions |-> <<"MANAGE_SETTINGS">>, requireAll |-> FALSE] >>

\* visibleMenuItems, from the auth context's payload
visibleMenuItems(payload) ==
    IF isAdminPayload(payload) THEN menuItems
    ELSE LET keep(item) ==
                 IF ~item.has \/ Len(item.permissions) = 0 THEN TRUE
                 ELSE IF item.requireAll THEN ctxHasAllPermissions(payload, item.permissions)
                 ELSE ctxHasAnyPermission(payload, item.permissions)
         IN  SelectSeq(menuItems, keep)

----------------------------------------------------------------------------
\* The edge middleware (middleware.ts).

\* decodeJwtInMiddleware: split on '.', decode the middle segment with
\* Buffer.from(_, 'base64url'), which never throws, and JSON.parse the text;
\* null when the segment count is wrong or the text does not parse.
decodeJwtInMiddleware(token) ==
    IF token.kind # "jwt" THEN Null
    ELSE IF token.parts # 3 THEN Null
    ELSE IF token.enc = "badjson" THEN Null
    ELSE token.json

\* isAdminRole accepting any truthy isAdmin field
isAdminRole_truthyFlag(payload) ==
    IF Falsy(payload) THEN FALSE
    ELSE IF payload.isAdmin \in {"true", "string"} THEN TRUE
    ELSE IF payload.hasPermissions /\ permissionsIncludes(payload, payload.permissions, FULL_ACCESS_PERMISSION) THEN TRUE
    ELSE IF payload.hasRoles
            /\ \E i \in 1..Len(payload.roles) :
                  StrIncludes(toUpperCase(payload.roles[i]), S_ADMIN) THEN TRUE
    ELSE FALSE

isAdminRole(payload) ==
    IF Falsy(payload) THEN FALSE
    ELSE IF payload.isAdmin = "true" THEN TRUE
    ELSE IF payload.hasPermissions /\ permissionsIncludes(payload, payload.permissions, FULL_ACCESS_PERMISSION) THEN TRUE
    ELSE IF payload.hasRoles
            /\ \E i \in 1..Len(payload.roles) :
                  StrIncludes(toUpperCase(payload.roles[i]), S_ADMIN) THEN TRUE
    ELSE FALSE

\* hasRequiredPermission without the full-access short-circuit
hasRequiredPermission_noAdmin(payload, requiredPermissions) ==
    IF payload = Null \/ ~payload.hasPermissions \/ permissionsLength(payload) = 0 THEN FALSE
    ELSE \E i \in 1..Len(requiredPermissions) :
            permissionsIncludes(payload, payload.permissions, requiredPermissions[i])

hasRequiredPermission(payload, requiredPermissions) ==
    IF isAdminRole(payload) THEN TRUE
    ELSE IF payload = Null \/ ~payload.hasPermissions \/ permissionsLength(payload) = 0 THEN FALSE
    ELSE \E i \in 1..Len(requiredPermissions) :
            permissionsIncludes(payload, payload.permissions, requiredPermissions[i])

\* getRequiredPermissions: the entry whose key is the path, else the first
\* entry (in insertion order) whose key is a prefix of the path, else null.
NoPermissions == [found |-> FALSE, permissions |-> <<>>]

\* the lookup that knows exact keys only
getRequiredPermissions_exactOnly(pathname) ==
    IF \E i \in 1..Len(ROUTE_PERMISSIONS) : ROUTE_PERMISSIONS[i].route = pathname
    THEN LET i == CHOOSE j \in 1..Len(ROUTE_PERMISSIONS) : ROUTE_PERMISSIONS[j].route = pathname
         IN  [found |-> TRUE, permissions |-> ROUTE_PERMISSIONS[i].permissions]
    ELSE NoPermissions

getRequiredPermissions(pathname) ==
    IF \E i \in 1..Len(ROUTE_PERMISSIONS) : ROUTE_PERMISSIONS[i].route = pathname
    THEN LET i == CHOOSE j \in 1..Len(ROUTE_PERMISSIONS) : ROUTE_PERMISSIONS[j].route = pathname
         IN  [found |-> TRUE, permissions |-> ROUTE_PERMISSIONS[i].permissions]
    ELSE IF \E i \in 1..Len(ROUTE_PERMISSIONS) : StartsWith(pathname, ROUTE_PERMISSIONS[i].route)
    THEN LET i == CHOOSE j \in 1..Len(ROUTE_PERMISSIONS) :
                     /\ StartsWith(pathname, ROUTE_PERMISSIONS[j].route)
                     /\ \A k \in 1..(j - 1) : ~StartsWith(pathname, ROUTE_PERMISSIONS[k].route)
         IN  [found |-> TRUE, permissions |-> ROUTE_PERMISSIONS[i].permissions]
    ELSE NoPermissions

\* NextResponse.next()
ResponseNext ==
    [kind |-> "next", location |-> <<>>, redirect |-> <<>>, deleteCookie |-> FALSE]

\* NextResponse.redirect(location), with the `redirect` query parameter
\* (empty when not set) and whether the response deletes the auth cookie
ResponseRedirect(location, redirectParam, deleteCookie) ==
    [kind |-> "redirect", location |-> location, redirect |-> redirectParam,
     deleteCookie |-> deleteCookie]

\* the login redirect without the return target
LoginRedirect_noParam(pathname) == ResponseRedirect(P_login, <<>>, FALSE)

\* the redirect of a request without token: /login?redirect=<pathname>
LoginRedirect(pathname) == ResponseRedirect(P_login, pathname, FALSE)

\* the middleware's own expiry test: payload?.exp && payload.exp * 1000 < Date.now()
middlewareExpired(payload, nowMs) ==
    /\ payload # Null
    /\ payload.hasExp
    /\ payload.exp # 0
    /\ payload.exp * 1000 < nowMs

\* middleware(request): `cookie` is the request's auth_token cookie
middleware(pathname, cookie, nowMs) ==
    IF Includes(PUBLIC_ROUTES, pathname) THEN ResponseNext
    ELSE IF \E i \in 1..Len(PUBLIC_PREFIXES) : StartsWith(pathname, PUBLIC_PREFIXES[i])
    THEN ResponseNext
    ELSE
      LET token == cookie
          payload == decodeJwtInMiddleware(token)
          requiredPermissions == getRequiredPermissions(pathname)
      IN  IF ~Truthy(token) /\ StartsWith(pathname, P_dashboard)
          THEN LoginRedirect(pathname)
          ELSE IF Truthy(token) /\ StartsWith(pathname, P_dashboard)
                  /\ middlewareExpired(payload, nowMs)
          THEN ResponseRedirect(P_login, <<>>, TRUE)
          ELSE IF Truthy(token) /\ StartsWith(pathname, P_dashboard)
                  /\ requiredPermissions.found
                  /\ Len(requiredPermissions.permissions) > 0
                  /\ ~hasRequiredPermission(payload, requiredPermissions.permissions)
          THEN ResponseRedirect(P_dashboard, <<>>, FALSE)
          ELSE IF Truthy(token) /\ pathname = P_login
          THEN ResponseRedirect(P_dashboard, <<>>, FALSE)
          ELSE ResponseNext

\* the file extensions of config.matcher
StaticExtensions ==
    << <<".", "s", "v", "g">>, <<".", "p", "n", "g">>, <<".", "j", "p", "g">>,
       <<".", "j", "p", "e", "g">>, <<".", "g", "i", "f">>, <<".", "w", "e", "b", "p">> >>

\* config.matcher,
\* '/((?!_next/static|_next/image|favicon.ico|.*\\.(?:svg|png|jpg|jpeg|gif|webp)$).*)':
\* whether the middleware runs for the path.  The dot of favicon.ico is
\* not escaped and stands for any character.
matcher(pathname) ==
    /\ Len(pathname) > 0
    /\ pathname[1] = "/"
    /\ LET rest == Tail(pathname)
       IN  /\ ~StartsWith(rest, <<"_", "n", "e", "x", "t", "/", "s", "t", "a", "t", "i", "c">>)
           /\ ~StartsWith(rest, <<"_", "n", "e", "x", "t", "/", "i", "m", "a", "g", "e">>)
           /\ ~(/\ Len(rest) >= 11
                /\ StartsWith(rest, <<"f", "a", "v", "i", "c", "o", "n">>)
                /\ SubSeq(rest, 9, 11) = <<"i", "c", "o">>)
           /\ ~\E i \in 1..Len(StaticExtensions) : EndsWith(rest, StaticExtensions[i])

----------------------------------------------------------------------------
\* The auth_token cookie as text (cookies.ts) and the http client
\* (http-client.ts).  Here the cookie is [kind |-> "raw", value |-> text].

\* "auth_token"
AUTH_COOKIE_NAME == <<"a", "u", "t", "h", "_", "t", "o", "k", "e", "n">>

\* "Bearer "
S_Bearer == <<"B", "e", "a", "r", "e", "r", " ">>

\* "theme=dark", another cookie of the page
S_OtherCookie == <<"t", "h", "e", "m", "e", "=", "d", "a", "r", "k">>

RawCookie(value) == [kind |-> "raw", value |-> value]

\* document.cookie: the cookies of the page as "name=value" joined by "; "
documentCookie(c) ==
    IF c = NoCookie THEN S_OtherCookie
    ELSE S_OtherCookie \o <<";", " ">> \o AUTH_COOKIE_NAME \o <<"=">> \o c.value

\* no Authorization header
NoHeader == [present |-> FALSE, value |-> <<>>]

\* no cookie of that name: null
NoValue == [found |-> FALSE, value |-> <<>>]

\* getTokenFromCookie / getAuthCookie: split on ';', trim, split on '=',
\* and return the second piece of the first cookie named auth_token
getTokenFromCookie(doc) ==
    LET cookies == Split(doc, ";")
        pieces(i) == Split(Trim(cookies[i]), "=")
        hits == {i \in 1..Len(cookies) : pieces(i)[1] = AUTH_COOKIE_NAME}
    IN  IF hits = {} THEN NoValue
        ELSE LET i == CHOOSE k \in hits : \A j \in hits : k <= j
             IN  [found |-> TRUE,
                  value |-> IF Len(pieces(i)) >= 2 THEN pieces(i)[2] ELSE <<>>]

\* the request interceptor: `if (token && config.headers)` sets the header
requestAuthorization(doc) ==
    LET token == getTokenFromCookie(doc)
    IN  IF token.found /\ Len(token.value) > 0
        THEN [present |-> TRUE, value |-> S_Bearer \o token.value]
        ELSE NoHeader

\* a teardown on 401 only
isSessionEndStatus_only401(status) == status = 401

\* the response interceptor ends the session on these statuses
isSessionEndStatus(status) == status = 401 \/ status = 403

----------------------------------------------------------------------------
\* Payloads of unexpected shape.  JSON.parse returns whatever the segment
\* encodes: a value that is not an object (jsonKind: a number other than 0,
\* "zero" for 0, "false", a list, a string), or an object whose
\* permissions or roles field is not a list of strings.  A field of shape
\* "string" keeps its value as the only element of the list (the evaluators
\* test it as a string, see permissionsIncludes), "number" and
\* "listOfNumbers" keep no strings.

ShapedJson(payload, jsonKind, permissionsShape, rolesShape) ==
    [jsonKind |-> jsonKind, permissionsShape |-> permissionsShape,
     rolesShape |-> rolesShape] @@ payload

\* The JSON string whose text is `text`, as JSON.parse returns it: a string
\* has none of a payload's fields, and it is still a text that can be
\* decoded as a token.
JsonString(text) ==
    ShapedJson(JwtPayload("absent", FALSE, <<>>, FALSE, <<>>, FALSE, 0),
               "string", "list", "list") @@ text

\* `payload.permissions?.includes(x)`: a number has no includes method, and
\* optional chaining only guards null and undefined
permissionsIncludesThrows(payload) ==
    /\ payload.hasPermissions
    /\ "permissionsShape" \in DOMAIN payload
    /\ payload.permissionsShape = "number"

\* `payload.roles?.some(role => role.toUpperCase()...)`: a string or a number
\* has no some method, a number element has no toUpperCase method
rolesSomeThrows(payload) ==
    /\ payload.hasRoles
    /\ "rolesShape" \in DOMAIN payload
    /\ \/ payload.rolesShape \in {"string", "number"}
       \/ payload.rolesShape = "listOfNumbers" /\ Len(payload.roles) > 0

\* the full-access test (isAdmin, isAdminRole, isAdminPayload) raises a
\* TypeError: none of the three catches
isAdminThrows(payload) ==
    /\ payload # Null
    /\ payload.isAdmin # "true"
    /\ \/ permissionsIncludesThrows(payload)
       \/ /\ ~(payload.hasPermissions /\ permissionsIncludes(payload, payload.permissions, FULL_ACCESS_PERMISSION))
          /\ rolesSomeThrows(payload)

\* hasPermission raises: in isAdmin, or in `permissions.includes(permission)`
hasPermissionThrows(token) ==
    LET payload == decodeJwt(token)
    IN  \/ isAdminThrows(payload)
        \/ /\ ~isAdmin(token)
           /\ payload # Null
           /\ permissionsIncludesThrows(payload)

\* hasRequiredPermission raises: in isAdminRole, or in its own includes
hasRequiredPermissionThrows(payload, requiredPermissions) ==
    \/ isAdminThrows(payload)
    \/ /\ ~isAdminRole(payload)
       /\ payload # Null
       /\ Len(requiredPermissions) > 0
       /\ permissionsIncludesThrows(payload)

\* the middleware raises: it calls hasRequiredPermission, outside any try,
\* for a token on a /dashboard path that declares permissions
middlewareThrows(pathname, cookie, nowMs) ==
    LET token == cookie
        payload == decodeJwtInMiddleware(token)
        requiredPermissions == getRequiredPermissions(pathname)
    IN  /\ ~Includes(PUBLIC_ROUTES, pathname)
        /\ ~\E i \in 1..Len(PUBLIC_PREFIXES) : StartsWith(pathname, PUBLIC_PREFIXES[i])
        /\ Truthy(token)
        /\ StartsWith(pathname, P_dashboard)
        /\ ~middlewareExpired(payload, nowMs)
        /\ requiredPermissions.found
        /\ Len(requiredPermissions.permissions) > 0
        /\ hasRequiredPermissionThrows(payload, requiredPermissions.permissions)

\* an uncaught exception instead of a response
ResponseThrow ==
    [kind |-> "throw", location |-> <<>>, redirect |-> <<>>, deleteCookie |-> FALSE]

----------------------------------------------------------------------------
\* Explored inputs.

SeqUpTo(S, n) == UNION {[1..k -> S] : k \in 0..n}

\* permission names carried by payloads
PermissionNames == {"READ_CLIENTS", FULL_ACCESS_PERMISSION}

\* permission names asked for by callers: one listed by payloads, the same
\* name in another letter case, and the reserved one
RequestNames == {"READ_CLIENTS", "read_clients"}

AskedNames == PermissionNames \cup RequestNames

RoleNames == {R_GERENTE_ADMIN, R_admin, R_BARBERO}

\* role names with a letter outside ASCII, each the only role of a payload
UnicodeRoleNames == {R_admin_dotless}

IsAdminFields == {"absent", "true", "false", "string"}

\* exp values (seconds) and clock readings (milliseconds)
ExpValues == {0, 30, 130, 160}

Times == {99999, 100000, 160001}

PermissionFields ==
    {[has |-> FALSE, list |-> <<>>]}
      \cup {[has |-> TRUE, list |-> l] : l \in SeqUpTo(PermissionNames, MaxPerms)}

RoleFields ==
    {[has |-> FALSE, list |-> <<>>]}
      \cup {[has |-> TRUE, list |-> l] : l \in SeqUpTo(RoleNames, MaxRoles)}
      \cup {[has |-> TRUE, list |-> <<r>>] : r \in UnicodeRoleNames}

ExpFields ==
    {[has |-> FALSE, value |-> 0]} \cup {[has |-> TRUE, value |-> e] : e \in ExpValues}

Payloads ==
    {JwtPayload(a, pf.has, pf.list, rf.has, rf.list, ef.has, ef.value) :
        a \in IsAdminFields, pf \in PermissionFields, rf \in RoleFields, ef \in ExpFields}

\* tokens whose middle segment is not strict base64url but yields a payload
\* to a decoder that skips what it does not know
LenientTokens ==
    {Jwt(3, "badbase64", JwtPayload("true", FALSE, <<>>, FALSE, <<>>, TRUE, 160)),
     Jwt(3, "badbase64", JwtPayload("absent", TRUE, <<"READ_CLIENTS">>, FALSE, <<>>, TRUE, 160))}

\* tokens that do not decode: wrong segment count, invalid base64, invalid JSON
MalformedTokens ==
    {Jwt(2, "ok", Null), Jwt(4, "ok", Null), Jwt(3, "badbase64", Null), Jwt(3, "badjson", Null)}
       \cup LenientTokens

\* the texts of JSON strings: one that is no token, and tokens of an
\* unexpired, an expired and an exp-less payload
StringTexts ==
    {Jwt(1, "ok", Null),
     Jwt(3, "ok", JwtPayload("absent", FALSE, <<>>, FALSE, <<>>, TRUE, 160)),
     Jwt(3, "ok", JwtPayload("absent", FALSE, <<>>, FALSE, <<>>, TRUE, 30)),
     Jwt(3, "ok", JwtPayload("true", FALSE, <<>>, FALSE, <<>>, FALSE, 0))}

\* tokens whose JSON text is a string
StringTokens == {Jwt(3, "ok", JsonString(text)) : text \in StringTexts}

Tokens ==
    {EmptyToken} \cup MalformedTokens \cup StringTokens \cup {Jwt(3, "ok", Null)}
       \cup {Jwt(3, "ok", p) : p \in Payloads}

\* tokens whose payloads differ in everything but the expiry
EvalTokens ==
    {EmptyToken} \cup MalformedTokens \cup {Jwt(3, "ok", Null)}
       \cup {Jwt(3, "ok", p) : p \in {q \in Payloads : q.hasExp /\ q.exp = 160}}

RequestLists == SeqUpTo(RequestNames, MaxReq)

\* the paths requested: a public route and one under a public prefix, one
\* outside /dashboard, dashboard routes with and without declared
\* permissions, and one the matcher keeps from the middleware
Paths ==
    {P_login, P_api_public, P_perfil, P_dashboard, P_dashboard_clientes,
     P_dashboard_clientes_nuevo, P_dashboard_clientes_foto_png, P_dashboard_servicios}

\* path segments, and the paths of up to MaxSegments of them ("/" for none)
Segments ==
    {<<"/", "d", "a", "s", "h", "b", "o", "a", "r", "d">>, <<"/", "c", "l", "i", "e", "n", "t", "e", "s">>, <<"/", "c", "l", "i", "e", "n", "t", "e", "s", "2">>,
     <<"/", "s", "e", "r", "v", "i", "c", "i", "o", "s">>, <<"/", "n", "u", "e", "v", "o">>}

RECURSIVE Concat(_)
Concat(parts) == IF parts = <<>> THEN <<>> ELSE Head(parts) \o Concat(Tail(parts))

LookupPaths ==
    {IF parts = <<>> THEN P_root ELSE Concat(parts) : parts \in SeqUpTo(Segments, MaxSegments)}

\* the token of a signed-in user without permissions
LookupToken == Jwt(3, "ok", JwtPayload("absent", TRUE, <<>>, FALSE, <<>>, TRUE, 160))

\* payloads whose fields have unexpected shapes, and values that are not
\* objects
ShapedPermissionFields ==
    {[has |-> FALSE, shape |-> "list",   list |-> <<>>],
     [has |-> TRUE,  shape |-> "list",   list |-> <<"READ_CLIENTS">>],
     [has |-> TRUE,  shape |-> "list",   list |-> <<FULL_ACCESS_PERMISSION>>],
     [has |-> TRUE,  shape |-> "string", list |-> <<"READ_CLIENTS">>],
     [has |-> TRUE,  shape |-> "string", list |-> <<"MY_FULL_ACCESS_X">>],
     [has |-> TRUE,  shape |-> "number", list |-> <<>>]}

\* names asked of shaped payloads: also a part of a name, and the empty name
ShapedAskedNames == AskedNames \cup {"READ", ""}

ShapedRoleFields ==
    {[has |-> FALSE, shape |-> "list",          list |-> <<>>],
     [has |-> TRUE,  shape |-> "list",          list |-> <<R_BARBERO>>],
     [has |-> TRUE,  shape |-> "string",        list |-> <<S_ADMIN>>],
     [has |-> TRUE,  shape |-> "number",        list |-> <<>>],
     [has |-> TRUE,  shape |-> "listOfNumbers", list |-> <<<<"1">>>>]}

ShapedPayloads ==
    {ShapedJson(JwtPayload(a, pf.has, pf.list, rf.has, rf.list, TRUE, 160),
                "object", pf.shape, rf.shape) :
        a \in {"absent", "true"}, pf \in ShapedPermissionFields, rf \in ShapedRoleFields}
    \cup
    {ShapedJson(JwtPayload("absent", FALSE, <<>>, FALSE, <<>>, FALSE, 0), k, "list", "list") :
        k \in {"number", "zero", "false", "array"}}
    \cup
    {JsonString(text) : text \in StringTexts \cup {EmptyToken}}

ShapedTokens ==
    {EmptyToken} \cup MalformedTokens \cup {Jwt(3, "ok", Null)}
       \cup {Jwt(3, "ok", p) : p \in ShapedPayloads}

\* token texts: a compact JWT, and tokens with base64 padding
RawTokens ==
    {<<"h", ".", "p", ".", "s">>,
     <<"h", ".", "p", ".", "s", "=">>,
     <<"h", ".", "p", "=", ".", "s">>,
     <<"h", ".", "p", ".", "s", "U+00A0">>}

\* response statuses; 0 stands for no response (network error, timeout)
Statuses == {0, 200, 400, 401, 403, 404, 500}

\* the cookies the gates render with
GateTokens ==
    {EmptyToken, Jwt(2, "ok", Null),
     Jwt(3, "ok", JwtPayload("absent", TRUE, <<"READ_CLIENTS">>, FALSE, <<>>, TRUE, 160)),
     Jwt(3, "ok", JwtPayload("absent", TRUE, <<>>, FALSE, <<>>, TRUE, 160)),
     Jwt(3, "ok", JwtPayload("true", TRUE, <<>>, FALSE, <<>>, TRUE, 160)),
     Jwt(3, "ok", JwtPayload("true", TRUE, <<>>, FALSE, <<>>, TRUE, 30)),
     Jwt(3, "ok", JwtPayload("absent", TRUE, <<"READ_CLIENTS">>, FALSE, <<>>, TRUE, 130)),
     Jwt(3, "ok", JsonString(Jwt(3, "ok", JwtPayload("true", FALSE, <<>>, FALSE, <<>>, TRUE, 160))))}

\* the cookies the sidebar and the guard are compared on
MenuPermissionLists ==
    {<<>>, <<"READ_CLIENTS">>, <<"READ_SERVICES", "MANAGE_SETTINGS">>,
     <<"READ_PROFESSIONALS", "READ_CATEGORIES", "READ_BOOKING">>,
     <<"CREATE_CLIENTS">>, <<FULL_ACCESS_PERMISSION>>}

MenuTokens ==
    {Jwt(2, "ok", Null)} \cup LenientTokens
       \cup {Jwt(3, "ok", JwtPayload("absent", TRUE, l, FALSE, <<>>, TRUE, e)) :
                l \in MenuPermissionLists, e \in {30, 160}}
       \cup {Jwt(3, "ok", JwtPayload("true", FALSE, <<>>, FALSE, <<>>, TRUE, 160)),
             Jwt(3, "ok", JwtPayload("absent", TRUE, <<"READ_CLIENTS">>, TRUE, <<R_GERENTE_ADMIN>>, TRUE, 160)),
             Jwt(3, "ok", JwtPayload("absent", FALSE, <<>>, TRUE, <<R_BARBERO>>, TRUE, 160))}

\* the users the backend answers with
Users == {"ana", "luis"}

\* the cookies a session starts from: a valid token, a full-access token, an
\* expired token and one that does not decode
SessionTokens ==
    {Jwt(3, "ok", JwtPayload("absent", TRUE, <<"READ_CLIENTS">>, FALSE, <<>>, TRUE, 160)),
     Jwt(3, "ok", JwtPayload("true", TRUE, <<>>, FALSE, <<>>, TRUE, 160)),
     Jwt(3, "ok", JwtPayload("absent", TRUE, <<"READ_CLIENTS">>, FALSE, <<>>, TRUE, 30)),
     Jwt(2, "ok", Null),
     Jwt(3, "ok", JsonString(Jwt(1, "ok", Null))),
     Jwt(3, "ok", ShapedJson(JwtPayload("absent", FALSE, <<>>, FALSE, <<>>, FALSE, 0),
                             "zero", "list", "list"))}

\* the session the list hooks are used in
HookTokens == {Jwt(3, "ok", JwtPayload("absent", TRUE, <<"READ_CLIENTS">>, FALSE, <<>>, TRUE, 160))}
HookUsers == {"ana"}

\* the tokens the backend issues at login
IssuedTokens ==
    {Jwt(3, "ok", JwtPayload("absent", TRUE, <<"READ_CLIENTS">>, FALSE, <<>>, TRUE, 160)),
     Jwt(3, "ok", JwtPayload("true", TRUE, <<>>, FALSE, <<>>, TRUE, 160))}

----------------------------------------------------------------------------
\* State.

VARIABLES
    cookie,      \* the browser's auth_token cookie: NoCookie or a token
    now,         \* Date.now(), milliseconds
    isLoading,   \* AuthProvider state: TRUE until initAuth has run
    jwtPayload,  \* AuthProvider state: the decoded payload, or Null
    call,        \* the last evaluation: function, inputs it read
    ret,         \* ... its boolean result
    response,    \* ... the middleware's response
    redirects,   \* redirect responses in the navigation being followed
    lookup,      \* the last route-table lookup: path, result, the guard's response
    mounted,     \* AuthProvider: the mount effect (initAuth) has run
    user,        \* AuthProvider state: the current user, or NoUser
    storedUser,  \* localStorage['barberia_user'], or NoUser
    pending,     \* backend calls in flight
    navigating,  \* window.location.href was assigned; the page will unload
    afterLogout, \* history: "never", "cleared" or "lateLogin" (see Logout)
    writes,      \* the writes of the last session operation, in program order
    http,        \* the last exchange of the http client
    gate,        \* the components that call usePermissions: what each keeps
                 \* between renders, and the last render
    menu,        \* the sidebar's last render: the hrefs of its visible items
    hook         \* a mounted list hook: its state and the calls it issued

vars == <<cookie, now, isLoading, jwtPayload, call, ret, response, redirects,
          lookup, mounted, user, storedUser, pending, navigating, afterLogout,
          writes, http, gate, menu, hook>>

\* the state of the browser session besides the cookie
sessionVars ==
    <<mounted, user, storedUser, pending, navigating, afterLogout, writes, http, gate, menu, hook>>

\* a list hook's `error: null`
NoError == "null"

\* useState's initial value in useClientes and useCategorias
initialState == [clientes |-> <<>>, loading |-> TRUE, error |-> NoError, searchQuery |-> ""]

\* no list hook is mounted
NoHook == [kind |-> "none", state |-> initialState, log |-> <<>>, rendered |-> {}]

\* the sidebar has not rendered
NoMenu == [rendered |-> FALSE, visible |-> <<>>]

\* the components that call usePermissions
Components == {"usePermissions", "ProtectedRoute", "PermissionGate"}

\* what a mounted component keeps between renders: the dependencies and
\* value of the isAuthenticated memo, and the hasAccess its effect last saw
NoSlot == [mounted |-> FALSE, token |-> NoCookie, isAuthenticated |-> FALSE, hasAccess |-> FALSE]

\* no component is mounted
NoGate ==
    [memo |-> "none", slots |-> [c \in Components |-> NoSlot],
     permissions |-> <<>>, requireAll |-> FALSE, rendered |-> "none", replace |-> FALSE]

NoHttp ==
    [phase |-> "none", cookie |-> NoCookie, authorization |-> NoHeader,
     status |-> 0, rejected |-> FALSE, apiStatus |-> 0]

NoUser == "none"

\* the user initAuth builds from the payload when none is stored
BasicUser == "basic"

NoLookup ==
    [pathname |-> <<>>, result |-> [found |-> FALSE, permissions |-> <<>>],
     response |-> [kind |-> "none", location |-> <<>>, redirect |-> <<>>, deleteCookie |-> FALSE]]

NoCall == [fn |-> "none", token |-> NoCookie, payload |-> Null,
           permission |-> "", permissions |-> <<>>, pathname |-> <<>>, at |-> 0]

NoResponse == [kind |-> "none", location |-> <<>>, redirect |-> <<>>, deleteCookie |-> FALSE]

Call(fn, token, payload, permission, permissions, pathname) ==
    [fn |-> fn, token |-> token, payload |-> payload, permission |-> permission,
     permissions |-> permissions, pathname |-> pathname, at |-> now]

\* the rest of the state after construction, for a given cookie store
InitFrom(cookies, storedUsers) ==
    /\ cookie \in cookies
    /\ now = 99999
    /\ isLoading = TRUE
    /\ jwtPayload = Null
    /\ call = NoCall
    /\ ret = FALSE
    /\ response = NoResponse
    /\ redirects = 0
    /\ lookup = NoLookup
    /\ mounted = FALSE
    /\ user = NoUser
    /\ storedUser \in storedUsers
    /\ pending = {}
    /\ navigating = FALSE
    /\ afterLogout = "never"
    /\ writes = <<>>
    /\ http = NoHttp
    /\ gate = NoGate
    /\ menu = NoMenu
    /\ hook = NoHook

InitWith(cookies) == InitFrom(cookies, {NoUser})

\* permission predicates: every payload shape, expiry held fixed
InitEval == InitWith({NoCookie} \cup EvalTokens)

\* route guard and expiry checks: every payload shape and expiry
InitGuard == InitWith({NoCookie} \cup Tokens)

\* time passes
Tick ==
    /\ \E t \in Times : t > now /\ now' = t
    /\ UNCHANGED <<cookie, isLoading, jwtPayload, call, ret, response, redirects, lookup>>
    /\ UNCHANGED sessionVars

\* `payload.sub?.split('@')` while the basic user is built: a string has
\* the method String.prototype.sub, which has no split, so the call throws
\* a TypeError; every other value of the model has no sub
subSplitThrows(payload) == IsString(payload)

\* AuthProvider mount effect: read the cookie, decode, and for a truthy
\* payload keep it and set the stored user, or a basic user built from the
\* payload; an exception while the basic user is built is logged by the
\* catch, after setJwtPayload and before setUser; `finally` ends loading
InitAuth ==
    /\ ~mounted
    /\ LET token == cookie
           payload == decodeJwt(token)
           savedUser == storedUser
       IN  IF Truthy(token) /\ ~Falsy(payload)
           THEN /\ jwtPayload' = payload
                /\ user' = IF savedUser # NoUser THEN savedUser
                           ELSE IF subSplitThrows(payload) THEN user
                           ELSE BasicUser
           ELSE UNCHANGED <<jwtPayload, user>>
    /\ isLoading' = FALSE
    /\ mounted' = TRUE
    /\ call' = Call("initAuth", cookie, decodeJwt(cookie), "", <<>>, <<>>)
    /\ ret' = FALSE
    /\ response' = NoResponse
    /\ UNCHANGED <<cookie, now, redirects, lookup, storedUser, pending, navigating, afterLogout, writes, http, gate, menu, hook>>

\* a caller evaluates one of the jwt.utils predicates on the cookie's token
Returns(c, r) ==
    /\ call' = c
    /\ ret' = r
    /\ response' = NoResponse
    /\ UNCHANGED <<cookie, now, isLoading, jwtPayload, redirects, lookup>>
    /\ UNCHANGED sessionVars

EvalIsAdmin ==
    /\ cookie # NoCookie
    /\ Returns(Call("isAdmin", cookie, decodeJwt(cookie), "", <<>>, <<>>), isAdmin(cookie))

EvalHasPermission ==
    /\ cookie # NoCookie
    /\ \E p \in AskedNames :
          Returns(Call("hasPermission", cookie, decodeJwt(cookie), p, <<>>, <<>>),
                  hasPermission(cookie, p))

EvalHasAnyPermission ==
    /\ cookie # NoCookie
    /\ \E l \in RequestLists :
          Returns(Call("hasAnyPermission", cookie, decodeJwt(cookie), "", l, <<>>),
                  hasAnyPermission(cookie, l))

EvalHasAllPermissions ==
    /\ cookie # NoCookie
    /\ \E l \in RequestLists :
          Returns(Call("hasAllPermissions", cookie, decodeJwt(cookie), "", l, <<>>),
                  hasAllPermissions(cookie, l))

EvalIsTokenExpired ==
    /\ cookie # NoCookie
    /\ Returns(Call("isTokenExpired", cookie, decodeJwt(cookie), "", <<>>, <<>>),
               isTokenExpired(decodeJwt(cookie), now))

\* what a component keeps after a render
Slot(token, isAuthenticated, hasAccess) ==
    [mounted |-> TRUE, token |-> token, isAuthenticated |-> isAuthenticated,
     hasAccess |-> hasAccess]

\* a render of usePermissions in `component`: useMemo keeps isAuthenticated
\* while its dependencies, the token and the payload decoded from it, are
\* the same
useIsAuthenticated(component) ==
    LET slot == gate.slots[component]
    IN  IF slot.mounted /\ slot.token = cookie
        THEN slot.isAuthenticated
        ELSE hookIsAuthenticated(cookie, now)

\* a component renders usePermissions, for the first time or again, and
\* reads isAuthenticated
EvalIsAuthenticated ==
    LET isAuthenticated == useIsAuthenticated("usePermissions")
    IN  /\ gate' = [gate EXCEPT !.slots["usePermissions"] =
                                   Slot(cookie, isAuthenticated, FALSE)]
        /\ call' = Call("isAuthenticated", cookie, decodeJwt(cookie), "", <<>>, <<>>)
        /\ ret' = isAuthenticated
        /\ response' = NoResponse
        /\ UNCHANGED <<cookie, now, isLoading, jwtPayload, redirects, lookup, mounted,
                       user, storedUser, pending, navigating, afterLogout, writes, http, menu, hook>>

\* the middleware's full-access test on the payload it decoded
EvalIsAdminRole ==
    /\ cookie # NoCookie
    /\ Returns(Call("isAdminRole", cookie, decodeJwtInMiddleware(cookie), "", <<>>, <<>>),
               isAdminRole(decodeJwtInMiddleware(cookie)))

\* the middleware's permission check on the payload it decoded, for a
\* non-empty required list
EvalHasRequiredPermission ==
    /\ cookie # NoCookie
    /\ \E l \in RequestLists \ {<<>>} :
          Returns(Call("hasRequiredPermission", cookie, decodeJwtInMiddleware(cookie), "", l, <<>>),
                  hasRequiredPermission(decodeJwtInMiddleware(cookie), l))

\* the auth context's isAdmin value
CtxIsAdmin ==
    Returns(Call("ctx.isAdmin", NoCookie, jwtPayload, "", <<>>, <<>>),
            isAdminPayload(jwtPayload))

\* a consumer of the auth context evaluates its predicates
CtxHasPermission ==
    \E p \in AskedNames :
       Returns(Call("ctx.hasPermission", NoCookie, jwtPayload, p, <<>>, <<>>),
               ctxHasPermission(jwtPayload, p))

CtxHasAnyPermission ==
    \E l \in RequestLists :
       Returns(Call("ctx.hasAnyPermission", NoCookie, jwtPayload, "", l, <<>>),
               ctxHasAnyPermission(jwtPayload, l))

CtxHasAllPermissions ==
    \E l \in RequestLists :
       Returns(Call("ctx.hasAllPermissions", NoCookie, jwtPayload, "", l, <<>>),
               ctxHasAllPermissions(jwtPayload, l))

\* a request for `pathname`: it passes through the middleware if the
\* matcher selects it, and is served without it otherwise; the browser
\* applies the response's cookie deletion
Request(pathname, redirectsBefore) ==
    LET res == IF matcher(pathname) THEN middleware(pathname, cookie, now) ELSE ResponseNext
    IN  /\ call' = Call(IF matcher(pathname) THEN "middleware" ELSE "unmatched",
                        cookie, decodeJwtInMiddleware(cookie), "", <<>>, pathname)
        /\ response' = res
        /\ ret' = FALSE
        /\ cookie' = IF res.deleteCookie THEN NoCookie ELSE cookie
        /\ redirects' = redirectsBefore + (IF res.kind = "redirect" THEN 1 ELSE 0)
        /\ UNCHANGED <<now, isLoading, jwtPayload, lookup>>
        /\ UNCHANGED sessionVars

\* a navigation starts
Middleware == \E pathname \in Paths : Request(pathname, 0)

\* the browser follows the redirect it was answered with
FollowRedirect ==
    /\ call.fn = "middleware"
    /\ response.kind = "redirect"
    /\ redirects < MaxRedirects
    /\ Request(response.location, redirects)

\* getRequiredPermissions for a path, and the guard's answer to a signed-in
\* user without permissions who requests it
Lookup ==
    \E pathname \in LookupPaths :
       /\ lookup' = [pathname |-> pathname,
                     result |-> getRequiredPermissions(pathname),
                     response |-> IF matcher(pathname)
                                  THEN middleware(pathname, LookupToken, now)
                                  ELSE ResponseNext]
       /\ call' = Call("getRequiredPermissions", NoCookie, Null, "", <<>>, pathname)
       /\ ret' = FALSE
       /\ response' = NoResponse
       /\ UNCHANGED <<cookie, now, isLoading, jwtPayload, redirects>>
       /\ UNCHANGED sessionVars

\* the decoders and evaluators on tokens of any shape: an operation returns,
\* or an exception leaves it
Throws(c) ==
    /\ call' = c
    /\ ret' = FALSE
    /\ response' = ResponseThrow
    /\ UNCHANGED <<cookie, now, isLoading, jwtPayload, redirects, lookup>>
    /\ UNCHANGED sessionVars

ShapeDecodeJwt ==
    /\ cookie # NoCookie
    /\ Returns(Call("decodeJwt", cookie, decodeJwt(cookie), "", <<>>, <<>>),
               decodeJwt(cookie) # Null)

ShapeIsAdmin ==
    /\ cookie # NoCookie
    /\ LET c == Call("isAdmin", cookie, decodeJwt(cookie), "", <<>>, <<>>)
       IN  IF isAdminThrows(decodeJwt(cookie)) THEN Throws(c)
           ELSE Returns(c, isAdmin(cookie))

ShapeHasPermission ==
    /\ cookie # NoCookie
    /\ \E p \in ShapedAskedNames :
          LET c == Call("hasPermission", cookie, decodeJwt(cookie), p, <<>>, <<>>)
          IN  IF hasPermissionThrows(cookie) THEN Throws(c)
              ELSE Returns(c, hasPermission(cookie, p))

ShapeMiddleware ==
    \E pathname \in Paths :
       IF matcher(pathname) /\ middlewareThrows(pathname, cookie, now)
       THEN Throws(Call("middleware", cookie, decodeJwtInMiddleware(cookie), "", <<>>, pathname))
       ELSE Request(pathname, 0)

----------------------------------------------------------------------------
\* The browser session: AuthProvider, authService and the http client.

\* a backend call in flight; `stale` once AuthProvider.logout has run since
\* it was sent
Pending(op, stale) == [op |-> op, stale |-> stale]

\* an operation of the session that read `token` and returns nothing, after
\* the writes `w`
DoesWith(fn, token, w) ==
    /\ call' = Call(fn, token, Null, "", <<>>, <<>>)
    /\ ret' = FALSE
    /\ response' = NoResponse
    /\ writes' = w
    /\ UNCHANGED <<now, redirects, lookup, http, gate, menu, hook>>

Does(fn) == DoesWith(fn, NoCookie, <<>>)

\* an operation of the session that ends by throwing an Error to its caller
Raises(fn) ==
    /\ call' = Call(fn, NoCookie, Null, "", <<>>, <<>>)
    /\ ret' = FALSE
    /\ response' = ResponseThrow
    /\ writes' = <<>>
    /\ UNCHANGED <<now, redirects, lookup, http, gate, menu, hook>>

\* one write: the store, the key or state variable, and what is written
Write(store, key, value) == [store |-> store, key |-> key, value |-> value]

\* the writes of a login in the order the statements run, the user before
\* the cookie
loginWrites_userFirst(token, usuario) ==
    << Write("state", "user", [usuario |-> usuario]),
       Write("localStorage", "barberia_user", [usuario |-> usuario]),
       Write("cookie", "auth_token", [token |-> token]),
       Write("state", "jwtPayload", [payload |-> decodeJwt(token)]) >>

\* the writes of a successful login in the order the statements run:
\* setAuthCookie, localStorage.setItem, setUser, setJwtPayload
loginWrites(token, usuario) ==
    << Write("cookie", "auth_token", [token |-> token]),
       Write("localStorage", "barberia_user", [usuario |-> usuario]),
       Write("state", "user", [usuario |-> usuario]),
       Write("state", "jwtPayload", [payload |-> decodeJwt(token)]) >>

\* the value the writes `w` leave under `key` of `store`, or `before`
Written(w, store, key, before) ==
    LET hits == {i \in 1..Len(w) : w[i].store = store /\ w[i].key = key}
    IN  IF hits = {} THEN before
        ELSE w[CHOOSE i \in hits : \A j \in hits : j <= i].value

\* authService.logout: remove the cookie and the stored user, then assign
\* window.location.href
authServiceLogout ==
    /\ cookie' = NoCookie
    /\ storedUser' = NoUser
    /\ navigating' = TRUE

\* AuthProvider.logout: clear the state, then authService.logout
providerLogout ==
    /\ user' = NoUser
    /\ jwtPayload' = Null
    /\ authServiceLogout
    /\ pending' = {Pending(c.op, TRUE) : c \in pending}
    /\ afterLogout' = "cleared"

\* AuthProvider.login up to the await: the request is sent
LoginStart ==
    /\ mounted /\ ~navigating
    /\ Pending("login", FALSE) \notin pending
    /\ isLoading' = TRUE
    /\ pending' = pending \cup {Pending("login", FALSE)}
    /\ Does("login")
    /\ UNCHANGED <<cookie, jwtPayload, mounted, user, storedUser, navigating, afterLogout>>

\* the login request succeeds: authService.login stores the token and the
\* user, AuthProvider.login sets its state
LoginSuccess ==
    \E c \in pending, token \in IssuedTokens, usuario \in Users :
       /\ c.op = "login"
       /\ LET w == loginWrites(token, usuario)
          IN  /\ cookie' = Written(w, "cookie", "auth_token", [token |-> cookie]).token
              /\ storedUser' = Written(w, "localStorage", "barberia_user", [usuario |-> storedUser]).usuario
              /\ user' = Written(w, "state", "user", [usuario |-> user]).usuario
              /\ jwtPayload' = Written(w, "state", "jwtPayload", [payload |-> jwtPayload]).payload
              /\ DoesWith("login.success", token, w)
       /\ isLoading' = FALSE
       /\ pending' = pending \ {c}
       /\ afterLogout' = IF ~c.stale \/ afterLogout = "never" THEN "never" ELSE "lateLogin"
       /\ UNCHANGED <<mounted, navigating>>

\* a failed login whose `finally` does not end loading
LoginFailure_keepsLoading ==
    \E c \in pending :
       /\ c.op = "login"
       /\ pending' = pending \ {c}
       /\ Raises("login.failure")
       /\ UNCHANGED <<cookie, isLoading, jwtPayload, mounted, user, storedUser, navigating, afterLogout>>

\* the login request fails: authService.login throws an Error, which
\* AuthProvider.login lets through; `finally` ends loading
LoginFailure ==
    \E c \in pending :
       /\ c.op = "login"
       /\ isLoading' = FALSE
       /\ pending' = pending \ {c}
       /\ Raises("login.failure")
       /\ UNCHANGED <<cookie, jwtPayload, mounted, user, storedUser, navigating, afterLogout>>

\* the logout of the auth context
Logout ==
    /\ mounted /\ ~navigating
    /\ providerLogout
    /\ Does("logout")
    /\ UNCHANGED <<isLoading, mounted>>

\* the sidebar's logout button: the click starts the dynamic import of the
\* services module and returns
SidebarLogoutClick ==
    /\ mounted /\ ~navigating
    /\ Pending("sidebar.logout", FALSE) \notin pending
    /\ pending' = pending \cup {Pending("sidebar.logout", FALSE)}
    /\ Does("sidebar.click")
    /\ UNCHANGED <<cookie, isLoading, jwtPayload, mounted, user, storedUser, navigating, afterLogout>>

\* the import resolves in a later task, whose `then` calls
\* authService.logout directly: the context's state is not touched
SidebarLogout ==
    \E c \in pending :
       /\ c.op = "sidebar.logout"
       /\ authServiceLogout
       /\ pending' = pending \ {c}
       /\ Does("sidebar.logout")
       /\ UNCHANGED <<isLoading, jwtPayload, mounted, user, afterLogout>>

\* AuthProvider.refreshUser up to the await: without a token getCurrentUser
\* throws and the catch logs out, otherwise the request is sent
RefreshStart ==
    /\ mounted /\ ~navigating
    /\ Pending("refresh", FALSE) \notin pending
    /\ IF ~Truthy(cookie)
       THEN providerLogout
       ELSE /\ pending' = pending \cup {Pending("refresh", FALSE)}
            /\ UNCHANGED <<cookie, jwtPayload, user, storedUser, navigating, afterLogout>>
    /\ DoesWith("refreshUser", cookie, <<>>)
    /\ UNCHANGED <<isLoading, mounted>>

\* GET /auth/me succeeds: getCurrentUser stores the user, refreshUser sets it
RefreshSuccess ==
    \E c \in pending, usuario \in Users :
       /\ c.op = "refresh"
       /\ storedUser' = usuario
       /\ user' = usuario
       /\ pending' = pending \ {c}
       /\ Does("refreshUser.success")
       /\ UNCHANGED <<cookie, isLoading, jwtPayload, mounted, navigating, afterLogout>>

\* a failed GET /auth/me after which only the context is cleared
RefreshFailure_keepsCookie ==
    \E c \in pending :
       /\ c.op = "refresh"
       /\ user' = NoUser
       /\ jwtPayload' = Null
       /\ pending' = {Pending(d.op, TRUE) : d \in pending \ {c}}
       /\ afterLogout' = "cleared"
       /\ Does("refreshUser.failure")
       /\ UNCHANGED <<cookie, storedUser, navigating, isLoading, mounted>>

\* GET /auth/me fails: getCurrentUser logs out and throws, the catch of
\* refreshUser logs out
RefreshFailure ==
    \E c \in pending :
       /\ c.op = "refresh"
       /\ user' = NoUser
       /\ jwtPayload' = Null
       /\ authServiceLogout
       /\ pending' = {Pending(d.op, TRUE) : d \in pending \ {c}}
       /\ afterLogout' = "cleared"
       /\ Does("refreshUser.failure")
       /\ UNCHANGED <<isLoading, mounted>>

\* the http client's response interceptor on a 401 or 403
HttpUnauthorized ==
    /\ mounted
    /\ authServiceLogout
    /\ Does("http.unauthorized")
    /\ UNCHANGED <<isLoading, jwtPayload, mounted, user, pending, afterLogout>>

\* the document is replaced: the provider is constructed anew (useState's
\* initial values, the mount effect not yet run), the calls and requests
\* in flight are dropped and every component of the page left is gone; the
\* cookie and localStorage stay
pageLoad ==
    /\ user' = NoUser
    /\ jwtPayload' = Null
    /\ isLoading' = TRUE
    /\ mounted' = FALSE
    /\ pending' = {}
    /\ navigating' = FALSE
    /\ writes' = <<>>
    /\ http' = NoHttp
    /\ gate' = NoGate
    /\ menu' = NoMenu
    /\ hook' = NoHook
    /\ call' = Call("reload", NoCookie, Null, "", <<>>, <<>>)
    /\ ret' = FALSE
    /\ response' = NoResponse
    /\ UNCHANGED <<cookie, now, redirects, lookup, storedUser, afterLogout>>

\* the page unloads and loads again
Reload ==
    /\ mounted
    /\ pageLoad

NextEval ==
    \/ InitAuth
    \/ EvalIsAdmin
    \/ EvalIsAdminRole
    \/ EvalHasRequiredPermission
    \/ CtxIsAdmin
    \/ EvalHasPermission
    \/ EvalHasAnyPermission
    \/ EvalHasAllPermissions
    \/ CtxHasPermission
    \/ CtxHasAnyPermission
    \/ CtxHasAllPermissions

NextGuard ==
    \/ Tick
    \/ EvalIsTokenExpired
    \/ EvalIsAuthenticated
    \/ Middleware
    \/ FollowRedirect

SpecEval == InitEval /\ [][NextEval]_vars

SpecGuard == InitGuard /\ [][NextGuard]_vars

\* cookies.ts setAuthCookie, as authService.login calls it with the user
\* record written next; the http client is not touched
SetAuthCookie ==
    \E token \in RawTokens, usuario \in Users :
       /\ cookie' = RawCookie(token)
       /\ storedUser' = usuario
       /\ call' = Call("setAuthCookie", NoCookie, Null, "", <<>>, <<>>)
       /\ ret' = FALSE
       /\ response' = NoResponse
       /\ UNCHANGED <<now, isLoading, jwtPayload, redirects, lookup, mounted, user,
                      pending, navigating, afterLogout, writes, http, gate, menu, hook>>

\* authService.logout; a request in flight stays in flight until the page
\* is gone
RemoveAuthCookie ==
    /\ authServiceLogout
    /\ call' = Call("removeAuthCookie", NoCookie, Null, "", <<>>, <<>>)
    /\ ret' = FALSE
    /\ response' = NoResponse
    /\ UNCHANGED <<now, isLoading, jwtPayload, redirects, lookup, mounted, user,
                   pending, afterLogout, writes, http, gate, menu, hook>>

\* the navigation that authService.logout or the response interceptor
\* started with `window.location.href = '/login'` completes: the page
\* arrives at /login
ArriveAtLogin ==
    /\ navigating
    /\ pageLoad

\* a request leaves through the request interceptor
HttpRequest ==
    /\ http' = [phase |-> "request", cookie |-> cookie,
                authorization |-> requestAuthorization(documentCookie(cookie)),
                status |-> 0, rejected |-> FALSE, apiStatus |-> 0]
    /\ call' = Call("http.request", NoCookie, Null, "", <<>>, <<>>)
    /\ ret' = FALSE
    /\ response' = NoResponse
    /\ UNCHANGED <<cookie, now, isLoading, jwtPayload, redirects, lookup, mounted, user,
                   storedUser, pending, navigating, afterLogout, writes, gate, menu, hook>>

\* a response, or the lack of one, passes the response interceptor
HttpResponse ==
    \E status \in Statuses :
       /\ http.phase = "request"
       /\ IF status >= 200 /\ status < 300
          THEN /\ http' = [http EXCEPT !.phase = "response", !.status = status]
               /\ UNCHANGED <<cookie, storedUser, navigating>>
          ELSE /\ http' = [http EXCEPT !.phase = "response", !.status = status,
                                       !.rejected = TRUE, !.apiStatus = status]
               /\ IF status # 0 /\ isSessionEndStatus(status)
                  THEN authServiceLogout
                  ELSE UNCHANGED <<cookie, storedUser, navigating>>
       /\ call' = Call("http.response", NoCookie, Null, "", <<>>, <<>>)
       /\ ret' = FALSE
       /\ response' = NoResponse
       /\ UNCHANGED <<now, isLoading, jwtPayload, redirects, lookup, mounted, user,
                      pending, afterLogout, writes, gate, menu, hook>>

\* ProtectedRoute renders, for the first time or again.  The effect runs
\* after the first render and after a render in which hasAccess or
\* isAuthenticated differs from the render before (router and redirectTo
\* stay the same).
RenderProtectedRoute ==
    \E permissions \in RequestLists, requireAll \in BOOLEAN :
       LET slot == gate.slots["ProtectedRoute"]
           isAuthenticated == useIsAuthenticated("ProtectedRoute")
           hasAccess == protectedRouteHasAccess(isAuthenticated, cookie, permissions, requireAll)
           out == ProtectedRoute(isAuthenticated, cookie, permissions, requireAll)
           effectRuns == \/ ~slot.mounted
                         \/ slot.hasAccess # hasAccess
                         \/ slot.isAuthenticated # isAuthenticated
       IN  /\ gate' = [memo |-> "ProtectedRoute",
                       slots |-> [gate.slots EXCEPT !["ProtectedRoute"] =
                                     Slot(cookie, isAuthenticated, hasAccess)],
                       permissions |-> permissions, requireAll |-> requireAll,
                       rendered |-> out.rendered, replace |-> effectRuns /\ out.replace]
           /\ call' = Call("ProtectedRoute", cookie, decodeJwt(cookie), "", permissions, <<>>)
           /\ ret' = isAuthenticated
           /\ response' = NoResponse
           /\ UNCHANGED <<cookie, now, isLoading, jwtPayload, redirects, lookup, mounted,
                          user, storedUser, pending, navigating, afterLogout, writes, http, menu, hook>>

\* PermissionGate renders
RenderPermissionGate ==
    \E permissions \in RequestLists, requireAll \in BOOLEAN :
       LET isAuthenticated == useIsAuthenticated("PermissionGate")
       IN  /\ gate' = [memo |-> "PermissionGate",
                       slots |-> [gate.slots EXCEPT !["PermissionGate"] =
                                     Slot(cookie, isAuthenticated, FALSE)],
                       permissions |-> permissions, requireAll |-> requireAll,
                       rendered |-> PermissionGate(cookie, permissions, requireAll),
                       replace |-> FALSE]
           /\ call' = Call("PermissionGate", cookie, decodeJwt(cookie), "", permissions, <<>>)
           /\ ret' = hookIsAdmin(cookie)
           /\ response' = NoResponse
           /\ UNCHANGED <<cookie, now, isLoading, jwtPayload, redirects, lookup, mounted,
                          user, storedUser, pending, navigating, afterLogout, writes, http, menu, hook>>

\* a component unmounts: what it kept is gone
Unmount ==
    \E component \in Components :
       /\ gate.slots[component].mounted
       /\ gate' = [gate EXCEPT !.memo = "none", !.slots[component] = NoSlot,
                               !.permissions = <<>>, !.requireAll = FALSE,
                               !.rendered = "none", !.replace = FALSE]
       /\ call' = Call("unmount", NoCookie, Null, "", <<>>, <<>>)
       /\ ret' = FALSE
       /\ response' = NoResponse
       /\ UNCHANGED <<cookie, now, isLoading, jwtPayload, redirects, lookup, mounted,
                      user, storedUser, pending, navigating, afterLogout, writes, http, menu, hook>>

\* the sidebar renders with the auth context's values
RenderSidebar ==
    /\ mounted
    /\ menu' = [rendered |-> TRUE,
                visible |-> [i \in 1..Len(visibleMenuItems(jwtPayload)) |->
                               visibleMenuItems(jwtPayload)[i].href]]
    /\ call' = Call("FlowbiteSidebar", NoCookie, jwtPayload, "", <<>>, <<>>)
    /\ ret' = isAdminPayload(jwtPayload)
    /\ response' = NoResponse
    /\ UNCHANGED <<cookie, now, isLoading, jwtPayload, redirects, lookup, mounted,
                   user, storedUser, pending, navigating, afterLogout, writes, http, gate, hook>>

\* a menu item is followed: its href is requested
RequestMenuItem ==
    \E i \in 1..Len(menuItems) : Request(menuItems[i].href, 0)

InitMenu == InitWith({NoCookie} \cup MenuTokens)

NextMenu == InitAuth \/ RenderSidebar \/ RequestMenuItem

SpecMenu == InitMenu /\ [][NextMenu]_vars

----------------------------------------------------------------------------
\* The list hooks (useClientes, useCategorias).  hook.state is the hook's
\* useState value, the list being its clientes / categorias field.  hook.log
\* holds the backend calls the hook issued, in issue order: the operation,
\* its argument, the backend's outcome and result, the state of the promise
\* handed to the caller, and for a categoria change the call its promise
\* still awaits.  hook.rendered holds the searchQuery of every render so far:
\* each render makes a refetch function that closes over it, and a caller may
\* hold any of them.  Responses arrive in any order.

\* an omitted argument
Undefined == "undefined"

\* the click event a button hands to its onClick handler
ClickEvent == "[object MouseEvent]"

\* the ApiError of a rejected backend call
ApiError == "ApiError"

\* query || ''
queryOrEmpty(query) == IF query = Undefined \/ query = "" THEN "" ELSE query

\* state.searchQuery || undefined
searchQueryOrUndefined(searchQuery) == IF searchQuery = "" THEN Undefined ELSE searchQuery

\* fetchClientes / fetchCategorias before the await
fetchPending(prev) == [prev EXCEPT !.loading = TRUE, !.error = NoError]

\* ... after getAll resolved
fetchFulfilled(clientes, query) ==
    [clientes |-> clientes, loading |-> FALSE, error |-> NoError,
     searchQuery |-> queryOrEmpty(query)]

\* ... the failed fetch that also forgets the list
fetchRejected_dropsList(prev, err) ==
    [prev EXCEPT !.clientes = <<>>, !.loading = FALSE, !.error = err]

\* ... after getAll rejected
fetchRejected(prev, err) == [prev EXCEPT !.loading = FALSE, !.error = err]

\* createCliente after create resolved
createClienteFulfilled(prev, newCliente) ==
    [prev EXCEPT !.clientes = <<newCliente>> \o prev.clientes]

\* updateCliente after update resolved
updateClienteFulfilled(prev, id, updated) ==
    [prev EXCEPT !.clientes =
        [i \in 1..Len(prev.clientes) |->
            IF prev.clientes[i].id = id THEN updated ELSE prev.clientes[i]]]

\* deleteCliente after delete resolved
deleteClienteFulfilled(prev, id) ==
    [prev EXCEPT !.clientes = SelectSeq(prev.clientes, LAMBDA c : c.id # id)]

Ids == {1, 2}
Nombres == {"a", "b"}
Queries == {"", "a"}

Item(id, nombre) == [id |-> id, nombre |-> nombre]

\* what the backend answers
GetAllResponses == {<<Item(1, "a")>>, <<Item(1, "a"), Item(2, "a")>>}
CreateResponses == {Item(2, "b")}
UpdateResponses(id) == {Item(id, "b")}

Entry(op, query, id) ==
    [op |-> op, query |-> query, id |-> id, outcome |-> "pending",
     result |-> <<>>, promise |-> "pending", follow |-> 0]

hookFrame ==
    <<cookie, now, isLoading, jwtPayload, call, ret, response, redirects,
      lookup, mounted, user, storedUser, pending, navigating, afterLogout,
      writes, http, gate, menu>>

\* what a rejecting call leaves alone besides the hook
rejectFrame ==
    <<now, isLoading, jwtPayload, call, ret, response, redirects, lookup,
      mounted, user, pending, afterLogout, writes, http, gate, menu>>

\* the statuses of a call that fails; 0 stands for no response
FailureStatuses == Statuses \ {200}

\* the response interceptor on a failed call, before the caller's promise
\* rejects: a 401 or 403 ends the session
interceptRejected(status) ==
    IF isSessionEndStatus(status)
    THEN authServiceLogout
    ELSE UNCHANGED <<cookie, storedUser, navigating>>

IsFetch(e) == e.op = "fetch"

\* a fetch is issued: setState before the await, then getAll is in flight
FetchStart(kind, query) ==
    /\ Len(hook.log) < MaxCalls
    /\ hook' = [kind |-> kind, state |-> fetchPending(hook.state),
                 log |-> Append(hook.log, Entry("fetch", query, 0)),
                 rendered |-> hook.rendered \cup {hook.state.searchQuery}]
    /\ UNCHANGED hookFrame

\* the mount effect of useClientes
MountUseClientes ==
    /\ hook.kind = "none"
    /\ FetchStart("useClientes", Undefined)

\* the mount effect of useCategorias
MountUseCategorias ==
    /\ hook.kind = "none"
    /\ FetchStart("useCategorias", Undefined)

\* search(query)
Search ==
    /\ hook.kind # "none"
    /\ \E query \in Queries : FetchStart(hook.kind, query)

\* clearSearch()
ClearSearch ==
    /\ hook.kind # "none"
    /\ FetchStart(hook.kind, Undefined)

\* refetch: useClientes repeats the search of the render the function was
\* made in and ignores its arguments; useCategorias hands out
\* fetchCategorias itself, so what the caller passes (nothing, or the click
\* event of <button onClick={refetch}>) is the query
Refetch ==
    /\ hook.kind # "none"
    /\ IF hook.kind = "useClientes"
       THEN \E searchQuery \in hook.rendered :
               FetchStart(hook.kind, searchQueryOrUndefined(searchQuery))
       ELSE \E argument \in {Undefined, ClickEvent} :
               FetchStart(hook.kind, argument)

\* createX / updateX / deleteX up to the await of the backend call; a
\* categoria change fetches again afterwards, so it needs room for two calls
MutationStart ==
    /\ hook.kind # "none"
    /\ Len(hook.log) + (IF hook.kind = "useCategorias" THEN 1 ELSE 0) < MaxCalls
    /\ \E op \in {"create", "update", "delete"}, id \in Ids :
          /\ op = "create" => id = 1
          /\ hook' = [hook EXCEPT !.log = Append(@, Entry(op, Undefined, IF op = "create" THEN 0 ELSE id))]
    /\ UNCHANGED hookFrame

\* the promises of categoria changes that awaited the fetch k resolve
Settle(log, k) ==
    [j \in 1..Len(log) |->
        IF log[j].follow = k /\ log[j].promise = "pending"
        THEN [log[j] EXCEPT !.promise = "resolved"] ELSE log[j]]

\* getAll resolves for the fetch k: the whole state is replaced
FetchResolve ==
    \E k \in 1..Len(hook.log), clientes \in GetAllResponses :
        /\ IsFetch(hook.log[k]) /\ hook.log[k].outcome = "pending"
        /\ hook' = [hook EXCEPT
              !.state = fetchFulfilled(clientes, hook.log[k].query),
              !.rendered = @ \cup {queryOrEmpty(hook.log[k].query)},
              !.log = Settle([@ EXCEPT ![k].outcome = "fulfilled", ![k].result = clientes,
                                       ![k].promise = "resolved"], k)]
        /\ UNCHANGED hookFrame

\* getAll fails for the fetch k: the response interceptor acts on the
\* status and rejects, the error is caught into the state
FetchReject ==
    \E k \in 1..Len(hook.log), status \in FailureStatuses :
        /\ IsFetch(hook.log[k]) /\ hook.log[k].outcome = "pending"
        /\ interceptRejected(status)
        /\ hook' = [hook EXCEPT
              !.state = fetchRejected(hook.state, ApiError),
              !.log = Settle([@ EXCEPT ![k].outcome = "rejected", ![k].promise = "resolved"], k)]
        /\ UNCHANGED rejectFrame

\* the state after the change k of useClientes resolved with these items
clienteChange(prev, e, result) ==
    CASE e.op = "create" -> createClienteFulfilled(prev, result[1])
      [] e.op = "update" -> updateClienteFulfilled(prev, e.id, result[1])
      [] e.op = "delete" -> deleteClienteFulfilled(prev, e.id)

MutationResponses(e) ==
    CASE e.op = "create" -> {<<r>> : r \in CreateResponses}
      [] e.op = "update" -> {<<r>> : r \in UpdateResponses(e.id)}
      [] e.op = "delete" -> {<<>>}

\* the backend call of the change k resolves: useClientes edits its list
\* and returns; useCategorias starts fetchCategorias() and awaits it
MutationResolve ==
    \E k \in 1..Len(hook.log) :
        /\ ~IsFetch(hook.log[k]) /\ hook.log[k].outcome = "pending"
        /\ \E result \in MutationResponses(hook.log[k]) :
              IF hook.kind = "useClientes"
              THEN hook' = [hook EXCEPT
                     !.state = clienteChange(hook.state, hook.log[k], result),
                     !.log = [@ EXCEPT ![k].outcome = "fulfilled", ![k].result = result,
                                       ![k].promise = "resolved"]]
              ELSE hook' = [hook EXCEPT
                     !.state = fetchPending(hook.state),
                     !.log = Append([@ EXCEPT ![k].outcome = "fulfilled", ![k].result = result,
                                              ![k].follow = Len(hook.log) + 1],
                                    Entry("fetch", Undefined, 0))]
        /\ UNCHANGED hookFrame

\* the backend call of the change k fails: the response interceptor acts on
\* the status and rejects, nothing in the hook catches it
MutationReject ==
    \E k \in 1..Len(hook.log), status \in FailureStatuses :
        /\ ~IsFetch(hook.log[k]) /\ hook.log[k].outcome = "pending"
        /\ interceptRejected(status)
        /\ hook' = [hook EXCEPT
              !.log = [@ EXCEPT ![k].outcome = "rejected", ![k].promise = "rejected"]]
        /\ UNCHANGED rejectFrame

\* the pages with the list hooks are opened in a session
InitHook == InitFrom(HookTokens, HookUsers)

NextHook ==
    \/ MountUseClientes \/ MountUseCategorias \/ Search \/ ClearSearch \/ Refetch
    \/ MutationStart \/ FetchResolve \/ FetchReject \/ MutationResolve \/ MutationReject

SpecHook == InitHook /\ [][NextHook]_vars

InitGate == InitWith({NoCookie} \cup GateTokens)

NextGate == Tick \/ RenderProtectedRoute \/ RenderPermissionGate \/ Unmount

SpecGate == InitGate /\ [][NextGate]_vars

InitHttp == InitFrom({NoCookie} \cup {RawCookie(t) : t \in RawTokens}, {NoUser} \cup Users)

NextHttp ==
    \/ SetAuthCookie
    \/ RemoveAuthCookie
    \/ ArriveAtLogin
    \/ HttpRequest
    \/ HttpResponse

SpecHttp == InitHttp /\ [][NextHttp]_vars

InitSession == InitWith({NoCookie} \cup SessionTokens)

NextSession ==
    \/ InitAuth
    \/ LoginStart
    \/ LoginSuccess
    \/ LoginFailure
    \/ Logout
    \/ SidebarLogoutClick
    \/ SidebarLogout
    \/ RefreshStart
    \/ RefreshSuccess
    \/ RefreshFailure
    \/ HttpUnauthorized
    \/ Reload
    \/ Middleware

SpecSession == InitSession /\ [][NextSession]_vars

InitShape == InitWith({NoCookie} \cup ShapedTokens)

NextShape == ShapeDecodeJwt \/ ShapeIsAdmin \/ ShapeHasPermission \/ ShapeMiddleware

SpecShape == InitShape /\ [][NextShape]_vars

InitLookup == InitWith({NoCookie})

NextLookup == Lookup

SpecLookup == InitLookup /\ [][NextLookup]_vars

----------------------------------------------------------------------------
\* Vocabulary of the properties, stated without the code's predicates.

\* the role name, upper-cased, has a window spelling ADMIN
ContainsAdminAnyCase(role) ==
    LET upper == toUpperCase(role)
    IN  \E k \in 0..(Len(upper) - 5) : \A j \in 1..5 : upper[k + j] = S_ADMIN[j]

\* the permissions a payload lists, as a set
PermissionSet(p) ==
    IF p # Null /\ p.hasPermissions
    THEN {p.permissions[i] : i \in 1..Len(p.permissions)}
    ELSE {}

\* flag true, or FULL_ACCESS listed, or some role name contains ADMIN
FullAccessCondition(p) ==
    /\ p # Null
    /\ \/ p.isAdmin = "true"
       \/ "FULL_ACCESS" \in PermissionSet(p)
       \/ p.hasRoles /\ \E i \in 1..Len(p.roles) : ContainsAdminAnyCase(p.roles[i])

HasFns == {"hasPermission", "ctx.hasPermission"}
HasAnyFns == {"hasAnyPermission", "ctx.hasAnyPermission"}
HasAllFns == {"hasAllPermissions", "ctx.hasAllPermissions"}

\* the expiry check as the specification words it, at clock reading t
SpecExpired(p, t) ==
    \/ p = Null
    \/ ~p.hasExp
    \/ t >= p.exp * 1000 - 60000

\* exp lies more than 60 seconds before clock reading t
ExpiredOverAMinuteAgo(p, t) ==
    /\ p # Null
    /\ p.hasExp
    /\ p.exp * 1000 + 60000 < t

\* the path is an exact public route or lies under a public prefix
IsPublicPath(path) ==
    \/ path \in {P_root, P_login, P_register, P_reservar, P_nosotros, P_servicios}
    \/ \E pre \in {P_api_public, P_next, P_favicon} :
          Len(pre) <= Len(path) /\ \A i \in 1..Len(pre) : path[i] = pre[i]

IsUnder(path, pre) ==
    Len(pre) <= Len(path) /\ \A i \in 1..Len(pre) : path[i] = pre[i]

\* the path ends in .svg, .png, .jpg, .jpeg, .gif or .webp
IsImageFile(path) ==
    \E ext \in {<<"s", "v", "g">>, <<"p", "n", "g">>, <<"j", "p", "g">>, <<"j", "p", "e", "g">>, <<"g", "i", "f">>, <<"w", "e", "b", "p">>} :
       /\ Len(path) > Len(ext) + 1
       /\ path[Len(path) - Len(ext)] = "."
       /\ \A i \in 1..Len(ext) : path[Len(path) - Len(ext) + i] = ext[i]

\* the permissions the route table declares for the path
DeclaredFor(path) ==
    UNION {{ROUTE_PERMISSIONS[i].permissions[j] : j \in 1..Len(ROUTE_PERMISSIONS[i].permissions)} :
             i \in {k \in 1..Len(ROUTE_PERMISSIONS) : IsUnder(path, ROUTE_PERMISSIONS[k].route)}}

----------------------------------------------------------------------------
\* C1: when the payload has full access (isAdmin flag true, FULL_ACCESS
\* listed, or a role name containing ADMIN in any case), hasPermission,
\* hasAnyPermission and hasAllPermissions of jwt.utils and of the auth
\* context return true for every permission and every list, the empty list
\* and names absent from the payload included.
C1_FullAccessOverride ==
    (call.fn \in HasFns \cup HasAnyFns \cup HasAllFns /\ FullAccessCondition(call.payload))
        => ret

\* full access through a role name only, asked with the empty list
C1_Witness ==
    /\ call.fn = "hasAnyPermission"
    /\ call.permissions = <<>>
    /\ FullAccessCondition(call.payload)
    /\ call.payload.isAdmin # "true"
    /\ "FULL_ACCESS" \notin PermissionSet(call.payload)
    /\ ret

\* C2: without full access hasPermission(p) is true iff p is an element of
\* the payload's permission list by exact string equality; with no list (or
\* no payload) it is false for every p.
C2_ExactMembership ==
    (call.fn \in HasFns /\ ~FullAccessCondition(call.payload))
        => (ret <=> call.permission \in PermissionSet(call.payload))

\* the name is asked in another letter case than the one listed
C2_Witness ==
    /\ call.fn = "hasPermission"
    /\ ~FullAccessCondition(call.payload)
    /\ call.permission = "read_clients"
    /\ PermissionSet(call.payload) = {"READ_CLIENTS"}
    /\ ~ret

\* C3: without full access hasAnyPermission(L) is true iff some element of L
\* is listed and hasAllPermissions(L) iff every element is; hasAllPermissions
\* of the empty list is true for any payload and hasAnyPermission of the
\* empty list is false without full access.
C3_AnyAll ==
    /\ (call.fn \in HasAnyFns /\ ~FullAccessCondition(call.payload))
          => (ret <=> \E i \in 1..Len(call.permissions) :
                         call.permissions[i] \in PermissionSet(call.payload))
    /\ (call.fn \in HasAllFns /\ ~FullAccessCondition(call.payload))
          => (ret <=> \A i \in 1..Len(call.permissions) :
                         call.permissions[i] \in PermissionSet(call.payload))
    /\ (call.fn \in HasAllFns /\ call.permissions = <<>>) => ret
    /\ (call.fn \in HasAnyFns /\ call.permissions = <<>> /\ ~FullAccessCondition(call.payload))
          => ~ret

\* two permissions asked, only the first one held
C3_Witness ==
    /\ call.fn = "hasAllPermissions"
    /\ ~FullAccessCondition(call.payload)
    /\ Len(call.permissions) = 2
    /\ call.permissions[1] \in PermissionSet(call.payload)
    /\ call.permissions[2] \notin PermissionSet(call.payload)
    /\ ~ret

\* C4: the full-access predicate (isAdmin of jwt.utils, isAdminRole of the
\* middleware) is true exactly when the isAdmin field is the boolean true, or
\* FULL_ACCESS is listed, or some upper-cased role name contains ADMIN; it is
\* false for a null payload and true for the roles ["GERENTE_ADMIN"] alone.
C4_FullAccessExactly ==
    (call.fn \in {"isAdmin", "isAdminRole"})
        => (ret <=> FullAccessCondition(call.payload))

\* roles ["GERENTE_ADMIN"], no flag, no FULL_ACCESS
C4_Witness ==
    /\ call.fn = "isAdmin"
    /\ call.payload # Null
    /\ call.payload.isAdmin = "absent"
    /\ "FULL_ACCESS" \notin PermissionSet(call.payload)
    /\ call.payload.hasRoles
    /\ call.payload.roles = <<R_GERENTE_ADMIN>>
    /\ ret

\* the payload of the argument of isTokenExpired: the argument itself, or
\* what a text decodes to
PayloadOf(argument) ==
    IF IsString(argument) THEN decodeJwt(argument) ELSE argument

\* C5: isTokenExpired is true when the payload is missing or has no exp, and
\* otherwise exactly when now (ms) >= exp * 1000 - 60000.
C5_ExpiryCheck ==
    (call.fn = "isTokenExpired")
        => LET payload == PayloadOf(call.payload)
           IN  ret <=> \/ payload = Null
                       \/ ~payload.hasExp
                       \/ call.at >= payload.exp * 1000 - 60000

\* the clock reads exactly exp * 1000 - 60000
C5_Witness ==
    /\ call.fn = "isTokenExpired"
    /\ call.payload # Null
    /\ call.payload.hasExp
    /\ call.at = call.payload.exp * 1000 - 60000
    /\ ret

\* C6: a token whose exp lies more than 60 seconds before the current time is
\* treated as expired by isTokenExpired, by usePermissions.isAuthenticated and
\* by the route guard, whatever its other claims and whatever exp is (0
\* included).
C6_LongExpiredEverywhere ==
    /\ (call.fn = "isTokenExpired" /\ ExpiredOverAMinuteAgo(call.payload, call.at)) => ret
    /\ (call.fn = "isAuthenticated" /\ ExpiredOverAMinuteAgo(call.payload, call.at)) => ~ret
    /\ (/\ call.fn = "middleware"
        /\ IsUnder(call.pathname, P_dashboard)
        /\ ExpiredOverAMinuteAgo(call.payload, call.at))
          => (response.kind = "redirect" /\ response.location = P_login)

\* C7: a request to a non-public path with a token that the specification's
\* expiry check treats as expired (exp past, exp within the 60 second margin,
\* or exp missing) is redirected to /login and its auth_token cookie deleted.
C7_GuardExpired ==
    (/\ call.fn = "middleware"
     /\ ~IsPublicPath(call.pathname)
     /\ call.token.kind = "jwt"
     /\ call.payload # Null
     /\ SpecExpired(call.payload, call.at))
        => (/\ response.kind = "redirect"
            /\ response.location = P_login
            /\ response.deleteCookie
            /\ cookie = NoCookie)

\* C8: a request to a path under /dashboard (or /dashboard itself) whose
\* cookie holds a token that does not decode is handled as a request without
\* cookie: redirected to /login.
C8_GuardMalformed ==
    (/\ call.fn = "middleware"
     /\ IsUnder(call.pathname, P_dashboard)
     /\ call.token \in MalformedTokens)
        => (response.kind = "redirect" /\ response.location = P_login)

\* C9 as stated: a request without auth_token cookie to any path outside the
\* public allow-list is redirected to /login with the pathname in the
\* redirect parameter.
C9_NoTokenAnyPath ==
    (/\ call.fn = "middleware"
     /\ ~IsPublicPath(call.pathname)
     /\ call.token = NoCookie)
        => (/\ response.kind = "redirect"
            /\ response.location = P_login
            /\ response.redirect = call.pathname)

\* C9 amended: a request without auth_token cookie to a path that starts with
\* /dashboard and does not end in an image extension is redirected to /login
\* with the pathname in the redirect parameter and never proceeds; every
\* other path, /perfil and /dashboard/clientes/foto.png among them, is not
\* guarded and proceeds.
C9_NoTokenDashboard ==
    /\ (/\ call.fn \in {"middleware", "unmatched"}
        /\ IsUnder(call.pathname, P_dashboard)
        /\ ~IsImageFile(call.pathname)
        /\ call.token = NoCookie)
           => (/\ response.kind = "redirect"
               /\ response.location = P_login
               /\ response.redirect = call.pathname
               /\ ~response.deleteCookie)
    /\ (/\ call.fn \in {"middleware", "unmatched"}
        /\ \/ ~IsUnder(call.pathname, P_dashboard)
           \/ IsImageFile(call.pathname)
        /\ call.token = NoCookie)
           => response.kind = "next"

\* a nested dashboard path requested without cookie
C9_Witness ==
    /\ call.fn = "middleware"
    /\ call.token = NoCookie
    /\ call.pathname = P_dashboard_clientes_nuevo
    /\ response.kind = "redirect"
    /\ response.redirect = P_dashboard_clientes_nuevo

\* C10: for a decodable, unexpired token and a path with a declared non-empty
\* required set R, the guard lets the request proceed iff the payload has
\* full access or lists an element of R, and otherwise redirects to
\* /dashboard.
C10_GuardPermission ==
    (/\ call.fn = "middleware"
     /\ call.token.kind = "jwt"
     /\ call.payload # Null
     /\ ~SpecExpired(call.payload, call.at)
     /\ DeclaredFor(call.pathname) # {})
        => IF \/ FullAccessCondition(call.payload)
              \/ DeclaredFor(call.pathname) \cap PermissionSet(call.payload) # {}
           THEN response.kind = "next"
           ELSE /\ response.kind = "redirect"
                /\ response.location = P_dashboard
                /\ ~response.deleteCookie

\* /dashboard/clientes with READ_CLIENTS held and no full access
C10_Witness ==
    /\ call.fn = "middleware"
    /\ call.pathname = P_dashboard_clientes
    /\ call.payload # Null
    /\ ~SpecExpired(call.payload, call.at)
    /\ ~FullAccessCondition(call.payload)
    /\ "READ_CLIENTS" \in PermissionSet(call.payload)
    /\ response.kind = "next"
\* C11: a request to /login that carries a token cookie is redirected to
\* /dashboard instead of proceeding.
C11_LoginWithToken ==
    (/\ call.fn = "middleware"
     /\ call.pathname = P_login
     /\ call.token.kind = "jwt")
        => (response.kind = "redirect" /\ response.location = P_dashboard)

\* C13: a request whose path is one of the public routes or lies under a
\* public prefix proceeds whatever the cookie holds (absent, malformed,
\* expired or valid), and the cookie is left as it was.
C13_PublicProceeds ==
    (call.fn \in {"middleware", "unmatched"} /\ IsPublicPath(call.pathname))
        => (/\ response.kind = "next"
            /\ ~response.deleteCookie
            /\ cookie = call.token)

\* /login requested with a long expired token
C13_Witness ==
    /\ call.fn = "middleware"
    /\ call.pathname = P_login
    /\ ExpiredOverAMinuteAgo(call.payload, call.at)
    /\ response.kind = "next"
    /\ cookie = call.token

\* C19: following each redirect of the guard with the cookie it leaves
\* behind, whatever time passes in between, a navigation is answered with
\* at most two redirects and then with a response that proceeds: redirects
\* counts the redirects of the navigation, the current response included.
C19_RedirectsTerminate == redirects <= 2

\* a request denied for lack of permission and redirected to /dashboard,
\* where the token has expired meanwhile, redirected to /login, which
\* proceeds
C19_Witness ==
    /\ call.fn = "middleware"
    /\ call.pathname = P_login
    /\ call.token = NoCookie
    /\ redirects = 2
    /\ response.kind = "next"

\* the entry the lookup is specified to return: the key equal to the path,
\* else the longest key that is a prefix of it, else none
RouteTable ==
    << [route |-> P_dashboard_clientes,      permissions |-> <<"READ_CLIENTS">>],
       [route |-> P_dashboard_profesionales, permissions |-> <<"READ_PROFESSIONALS">>],
       [route |-> P_dashboard_categorias,    permissions |-> <<"READ_CATEGORIES">>],
       [route |-> P_dashboard_servicios,     permissions |-> <<"READ_SERVICES">>],
       [route |-> P_dashboard_reservas,      permissions |-> <<"READ_BOOKING">>],
       [route |-> P_dashboard_configuracion, permissions |-> <<"MANAGE_SETTINGS">>] >>

LongestPrefixEntry(table, pathname) ==
    IF \E i \in 1..Len(table) : table[i].route = pathname
    THEN LET i == CHOOSE j \in 1..Len(table) : table[j].route = pathname
         IN  [found |-> TRUE, permissions |-> table[i].permissions]
    ELSE IF \E i \in 1..Len(table) : StartsWith(pathname, table[i].route)
    THEN LET i == CHOOSE j \in 1..Len(table) :
                     /\ StartsWith(pathname, table[j].route)
                     /\ \A k \in 1..Len(table) :
                           StartsWith(pathname, table[k].route)
                              => Len(table[k].route) <= Len(table[j].route)
         IN  [found |-> TRUE, permissions |-> table[i].permissions]
    ELSE NoPermissions

\* C12: for the route table of the program and any path the lookup returns
\* the entry whose key equals the path, otherwise the entry of the longest
\* key that is a prefix of the path, otherwise none; when none is declared
\* the request of a signed-in user proceeds whatever permissions the user
\* lacks.
C12_LongestPrefix ==
    call.fn = "getRequiredPermissions"
        => /\ lookup.result = LongestPrefixEntry(RouteTable, lookup.pathname)
           /\ ~lookup.result.found => lookup.response.kind = "next"

\* a path below a key: the entry of the key, and the user
\* without its permission is turned away
C12_Witness ==
    /\ call.fn = "getRequiredPermissions"
    /\ lookup.pathname = P_dashboard_clientes_nuevo
    /\ lookup.result = [found |-> TRUE, permissions |-> <<"READ_CLIENTS">>]
    /\ lookup.response.kind = "redirect"

\* C15: for every decoded payload (null included) and every non-empty
\* required list, the middleware's hasRequiredPermission returns what
\* hasAnyPermission returns on the same payload, and isAdminRole, isAdmin and
\* isAdminPayload return the same value on every payload.  The predicates
\* of jwt.utils take the token: they are on the same payload when the token
\* decoder yields it.
C15_GuardAgreesWithEvaluator ==
    /\ (call.fn = "hasRequiredPermission" /\ decodeJwt(call.token) = call.payload)
          => ret = hasAnyPermission(call.token, call.permissions)
    /\ (/\ call.fn \in {"isAdminRole", "isAdmin"}
        /\ decodeJwt(call.token) = decodeJwtInMiddleware(call.token))
          => (/\ decodeJwt(call.token) = call.payload
              /\ ret = isAdminRole(call.payload)
              /\ ret = isAdmin(call.token)
              /\ ret = isAdminPayload(call.payload))
    /\ call.fn = "ctx.isAdmin"
          => (/\ ret = isAdminRole(call.payload)
              /\ ret = isAdminPayload(call.payload))

\* the guard's check refuses a payload whose isAdmin field is a string and
\* whose permissions miss the required one
C15_Witness ==
    /\ call.fn = "hasRequiredPermission"
    /\ call.payload # Null
    /\ decodeJwt(call.token) = call.payload
    /\ call.payload.isAdmin = "string"
    /\ call.payload.hasPermissions
    /\ Len(call.payload.permissions) > 0
    /\ Len(call.permissions) > 0
    /\ ~ret
\* C14: for every token string, whatever the shape of its payload, no
\* exception leaves the decoder, the predicates or the route guard: the
\* predicates return a boolean and the guard proceeds or redirects.
C14_NoExceptionEscapes ==
    /\ response.kind # "throw"
    /\ call.fn = "middleware" => response.kind \in {"next", "redirect"}
\* the session is cleared: nothing in memory, nothing stored
SessionCleared ==
    /\ user = NoUser
    /\ jwtPayload = Null
    /\ ~isAdminPayload(jwtPayload)
    /\ ctxPermissions(jwtPayload) = <<>>
    /\ cookie = NoCookie
    /\ storedUser = NoUser
    /\ \A p \in AskedNames : ~ctxHasPermission(jwtPayload, p)
    /\ \A l \in RequestLists : ~ctxHasAnyPermission(jwtPayload, l)

\* C16: from AuthProvider.logout until the next successful login the
\* session is cleared: user and payload null, not admin, no permissions,
\* cookie and stored user removed, hasPermission and hasAnyPermission false.
C16_LogoutClears ==
    afterLogout = "cleared" => SessionCleared

\* C17: when the session holder initialises from a stored token that the
\* expiry check reports as expired, the user stays null and the token is
\* discarded.
C17_InitDropsExpired ==
    (/\ call.fn = "initAuth"
     /\ call.payload # Null
     /\ isTokenExpired(call.payload, call.at))
        => (user = NoUser /\ cookie = NoCookie)

\* C18: once logout has run and every call in flight has completed, no
\* user is set: a late response does not re-establish the user.
C18_NoLateWriter ==
    (afterLogout \in {"cleared", "lateLogin"} /\ pending = {})
        => user = NoUser

\* C20: whenever the auth context reports isAuthenticated (user non-null)
\* the auth_token cookie is present and the context holds a payload.
C20_SessionConsistent ==
    user # NoUser => (cookie # NoCookie /\ jwtPayload # Null)
\* C21: a failed login throws an Error and changes nothing: the cookie, the
\* stored user, the context's user and payload keep their values, and
\* isLoading is false afterwards.
C21_FailedLoginChangesNothing ==
    [][call'.fn = "login.failure"
         => (/\ response'.kind = "throw"
             /\ cookie' = cookie
             /\ storedUser' = storedUser
             /\ user' = user
             /\ jwtPayload' = jwtPayload
             /\ ~isLoading')]_vars

\* a login failed while a session was established
C21_Witness ==
    /\ call.fn = "login.failure"
    /\ response.kind = "throw"
    /\ ~isLoading
    /\ user \in Users
    /\ cookie # NoCookie
    /\ jwtPayload # Null

\* position of the first write to `key` of `store`, 0 if there is none
FirstWrite(w, store, key) ==
    LET hits == {i \in 1..Len(w) : w[i].store = store /\ w[i].key = key}
    IN  IF hits = {} THEN 0 ELSE CHOOSE i \in hits : \A j \in hits : i <= j

\* C22: a successful login writes the backend's token to the auth_token
\* cookie before it writes the stored user and before it sets the context's
\* user; the context's payload is the decoding of that token; nothing
\* written to localStorage is the token.
C22_LoginOrder ==
    call.fn = "login.success"
        => (/\ FirstWrite(writes, "cookie", "auth_token") > 0
            /\ FirstWrite(writes, "cookie", "auth_token")
                  < FirstWrite(writes, "localStorage", "barberia_user")
            /\ FirstWrite(writes, "cookie", "auth_token")
                  < FirstWrite(writes, "state", "user")
            /\ cookie = call.token
            /\ jwtPayload = decodeJwt(call.token)
            /\ \A i \in 1..Len(writes) :
                  writes[i].store = "localStorage"
                     => (writes[i].key = "barberia_user"
                         /\ writes[i].value # [token |-> call.token]))

\* a login with a full-access token succeeded
C22_Witness ==
    /\ call.fn = "login.success"
    /\ Len(writes) = 4
    /\ cookie = call.token
    /\ isAdminPayload(jwtPayload)
    /\ user \in Users
    /\ storedUser = user

\* C25: a refreshUser whose backend call fails, or that finds no token,
\* ends logged out (cookie and stored user removed, user and payload null);
\* one that succeeds replaces the user and leaves the cookie and the payload
\* (hence roles and permissions) unchanged.
C25_RefreshFailsClosed ==
    [][/\ (call'.fn = "refreshUser.failure"
              \/ (call'.fn = "refreshUser" /\ ~Truthy(call'.token)))
          => (/\ cookie' = NoCookie
              /\ storedUser' = NoUser
              /\ user' = NoUser
              /\ jwtPayload' = Null)
       /\ call'.fn = "refreshUser.success"
          => (/\ cookie' = cookie
              /\ jwtPayload' = jwtPayload
              /\ isLoading' = isLoading
              /\ user' \in Users
              /\ storedUser' = user')]_vars

\* a refresh failed and ended an established session
C25_Witness ==
    /\ call.fn = "refreshUser.failure"
    /\ cookie = NoCookie
    /\ user = NoUser
    /\ navigating
\* C23: a 401 or 403 response removes the cookie and the stored user, sends
\* the browser to /login and still rejects with an ApiError of that status;
\* any other status, and a missing response, leave the cookie and the stored
\* user unchanged.
C23_Teardown ==
    [][call'.fn = "http.response"
         => IF http'.status \in {401, 403}
            THEN /\ cookie' = NoCookie
                 /\ storedUser' = NoUser
                 /\ navigating'
                 /\ http'.rejected
                 /\ http'.apiStatus = http'.status
            ELSE /\ cookie' = cookie
                 /\ storedUser' = storedUser
                 /\ navigating' = navigating]_vars

\* a 403 ended a stored session
C23_Witness ==
    /\ call.fn = "http.response"
    /\ http.status = 403
    /\ http.cookie # NoCookie
    /\ http.rejected
    /\ cookie = NoCookie
    /\ storedUser = NoUser
    /\ navigating

\* C24: a request carries Authorization: Bearer <token> iff the cookie is
\* present when the request is issued, with <token> the cookie's value.
C24_TokenAttached ==
    http.phase = "request"
        => (/\ http.authorization.present <=> http.cookie # NoCookie
            /\ http.authorization.present
                  => http.authorization.value = S_Bearer \o http.cookie.value)
\* the listed permission is among the token's permissions
Held(token, p) == Includes(getPermissionsFromToken(token), p)

\* the required permissions are satisfied: all of them, or any of them
Satisfied(token, permissions, requireAll) ==
    IF requireAll THEN \A i \in 1..Len(permissions) : Held(token, permissions[i])
    ELSE \E i \in 1..Len(permissions) : Held(token, permissions[i])

\* C26: ProtectedRoute renders its children only if the cookie token decodes
\* and is not expired, and then only with full access, no required
\* permissions, or the required permissions satisfied; it calls
\* router.replace only for an authenticated user who lacks access; an
\* unauthenticated user sees the loading component and is not redirected.
C26_ProtectedRoute ==
    call.fn = "ProtectedRoute"
        => LET authenticated == /\ call.payload # Null
                                /\ ~isTokenExpired(call.payload, call.at)
               access == \/ isAdminPayload(call.payload)
                         \/ Len(gate.permissions) = 0
                         \/ Satisfied(call.token, gate.permissions, gate.requireAll)
           IN  /\ gate.rendered = "children" => (authenticated /\ access)
               /\ gate.replace => (authenticated /\ ~access)
               /\ ~authenticated => (gate.rendered = "loading" /\ ~gate.replace)

\* C27: PermissionGate renders its children iff there is a token and it has
\* full access, or holds every listed permission (requireAll), or holds one
\* of them (otherwise); else it renders the fallback.  Without a token it
\* renders the fallback for every list.
C27_PermissionGate ==
    call.fn = "PermissionGate"
        => (/\ gate.rendered \in {"children", "fallback"}
            /\ gate.rendered = "children"
                  <=> (/\ Truthy(call.token)
                       /\ \/ isAdmin(call.token)
                          \/ Satisfied(call.token, gate.permissions, gate.requireAll)))

\* without a cookie, the empty list with requireAll renders the fallback
C27_Witness ==
    /\ call.fn = "PermissionGate"
    /\ call.token = NoCookie
    /\ gate.permissions = <<>>
    /\ gate.requireAll
    /\ gate.rendered = "fallback"
\* C28: for an unexpired token that the token decoder decodes, held by
\* cookie and context alike, a menu item is visible in the sidebar iff the
\* guard lets a request to the item's href proceed.
C28_MenuAgreesWithGuard ==
    (/\ call.fn = "middleware"
     /\ menu.rendered
     /\ call.payload # Null
     /\ decodeJwt(call.token) = call.payload
     /\ ~isTokenExpired(call.payload, call.at)
     /\ jwtPayload = decodeJwt(call.token)
     /\ \E i \in 1..Len(menuItems) : menuItems[i].href = call.pathname)
        => (Includes(menu.visible, call.pathname) <=> response.kind = "next")

\* the Clientes item is hidden and the guard turns its href away
C28_Witness ==
    /\ call.fn = "middleware"
    /\ menu.rendered
    /\ call.payload # Null
    /\ ~isTokenExpired(call.payload, call.at)
    /\ jwtPayload = decodeJwt(call.token)
    /\ call.pathname = P_dashboard_clientes
    /\ ~Includes(menu.visible, P_dashboard_clientes)
    /\ Includes(menu.visible, P_dashboard_servicios)
    /\ response.kind = "redirect"

\* every call the hook issued has completed
Quiescent == \A k \in 1..Len(hook.log) : hook.log[k].outcome # "pending"

\* the most recently issued fetch, or 0
LastFetch ==
    IF \E k \in 1..Len(hook.log) : IsFetch(hook.log[k])
    THEN CHOOSE k \in 1..Len(hook.log) :
            /\ IsFetch(hook.log[k])
            /\ \A j \in 1..Len(hook.log) : IsFetch(hook.log[j]) => j <= k
    ELSE 0

\* the state the completed calls leave when their responses are taken in
\* the order the calls were issued
RECURSIVE InIssueOrder(_, _, _)
InIssueOrder(kind, log, st) ==
    IF log = <<>> THEN st
    ELSE LET e == Head(log)
             next == IF e.outcome # "fulfilled" THEN st
                     ELSE IF IsFetch(e) THEN fetchFulfilled(e.result, e.query)
                     ELSE IF kind = "useClientes" THEN clienteChange(st, e, e.result)
                     ELSE st
         IN  InIssueOrder(kind, Tail(log), next)

\* C29: in useClientes and useCategorias, once every call in flight has
\* completed and the most recently issued fetch succeeded, loading is false,
\* searchQuery is that fetch's query and the list is that fetch's list with
\* the changes issued after it: no response of an older call has replaced
\* them.
C29_LatestRequestWins ==
    (/\ hook.kind # "none" /\ Quiescent /\ LastFetch # 0
     /\ hook.log[LastFetch].outcome = "fulfilled")
        => LET expected == InIssueOrder(hook.kind, hook.log, initialState)
           IN  /\ hook.state.loading = FALSE
               /\ hook.state.searchQuery = expected.searchQuery
               /\ hook.state.clientes = expected.clientes

\* the entries of a list whose id is not the given one, in order
RECURSIVE WithoutId(_, _)
WithoutId(list, id) ==
    IF list = <<>> THEN <<>>
    ELSE IF Head(list).id = id THEN WithoutId(Tail(list), id)
    ELSE <<Head(list)>> \o WithoutId(Tail(list), id)

\* what the completion of the call e of useClientes does to the state
LocalUpdate(e, old, new) ==
    CASE e.op = "create" /\ e.outcome = "fulfilled" ->
            /\ Len(new.clientes) = Len(old.clientes) + 1
            /\ Head(new.clientes) = e.result[1]
            /\ Tail(new.clientes) = old.clientes
            /\ new.searchQuery = old.searchQuery
            /\ new.loading = old.loading
            /\ new.error = old.error
      [] e.op = "update" /\ e.outcome = "fulfilled" ->
            /\ Len(new.clientes) = Len(old.clientes)
            /\ \A i \in 1..Len(old.clientes) :
                  new.clientes[i] = IF old.clientes[i].id = e.id THEN e.result[1]
                                    ELSE old.clientes[i]
      [] e.op = "delete" /\ e.outcome = "fulfilled" ->
            new.clientes = WithoutId(old.clientes, e.id)
      [] e.op # "fetch" /\ e.outcome = "rejected" ->
            new = old /\ e.promise = "rejected"
      [] e.op = "fetch" /\ e.outcome = "rejected" ->
            /\ new.clientes = old.clientes
            /\ new.searchQuery = old.searchQuery
            /\ new.error # NoError
            /\ new.loading = FALSE
      [] OTHER -> TRUE

\* C30: in useClientes a successful createCliente puts the new client at
\* the head and leaves the other entries, searchQuery, loading and error
\* alone; a successful updateCliente(id) replaces exactly the entries with
\* that id; a successful deleteCliente(id) removes exactly those entries; a
\* failed create, update or delete leaves the state alone and rejects the
\* caller's promise; a failed fetch keeps list and searchQuery, sets error
\* and clears loading.
C30_LocalUpdates ==
    [][hook.kind = "useClientes" =>
          \A k \in 1..Len(hook.log) :
              (hook.log[k].outcome = "pending" /\ hook'.log[k].outcome # "pending")
                  => LocalUpdate(hook'.log[k], hook.state, hook'.state)]_vars

C30_Witness ==
    /\ hook.kind = "useClientes"
    /\ Len(hook.state.clientes) >= 2
    /\ \E k \in 1..Len(hook.log) :
          /\ hook.log[k].op = "create" /\ hook.log[k].outcome = "fulfilled"
          /\ Head(hook.state.clientes) = hook.log[k].result[1]
    /\ \E k \in 1..Len(hook.log) :
          /\ hook.log[k].op \in {"update", "delete"}
          /\ hook.log[k].promise = "rejected"
====
